---- MODULE Spec2Model ----
(***************************************************************************)
(* Model of chainlib-rs: the amino TransferBuilder, the protobuf TxBuilder, *)
(* the software and Ledger key services and the Ledger chunked signing     *)
(* protocol.  Strings are sequences of one-character strings, byte strings *)
(* are sequences of 0..255 and a u64 is a little-endian sequence of eight  *)
(* bytes, so that the whole 64-bit range is representable.                 *)
(***************************************************************************)
EXTENDS Integers, Sequences, FiniteSets, TLC

VARIABLES
    \* amino TransferBuilder (src/src/tx_builder/amino.rs)
    fee, gas, memo, chain_id, signatures, transfers,
    amino_ret,      \* what the last add_transfer / build call returned
    build_log,      \* one record per successful build: its arguments and what was signed
    \* Amount::new (src/src/types/basic.rs)
    am_in, am_out,
    \* protobuf TxBuilder (src/src/tx_builder/grpc.rs)
    g_cfg, g_messages, g_account_number, g_sequence, g_signed, g_ret,
    \* key services (src/src/key_service.rs, src/src/key_service/ledger_service.rs)
    ks_msg, ks_ret,
    \* LedgerServiceHID::new and the device (src/src/key_service/ledger_service.rs)
    dev_app, dev_log, hid_in, hid_pc, hid_cache, hid_ret,
    hid_call,       \* the KeyService method hid_ret is the answer of
    \* CosmosValidatorApp::sign (src/src/utils/ledger_crypto.rs)
    cv_len, cv_pc, cv_idx, cv_sent, cv_response, cv_ret,
    \* Address (src/src/types/address.rs)
    ad_in,          \* the slice or string the first call is given
    ad_trace,       \* the calls made so far, each with what it returned
    \* SignDoc::encode (src/src/types/signature.rs)
    js_in,          \* a sign-document, its JSON value and the same value reordered
    js_out,         \* the sign bytes of the two values
    \* functions checked on their own (mnemonic.rs, ledger_crypto.rs)
    call_in,        \* the function that is called and its argument
    call_out        \* what the call returned

aminoVars  == <<fee, gas, memo, chain_id, signatures, transfers, amino_ret, build_log>>
amountVars == <<am_in, am_out>>
grpcVars   == <<g_cfg, g_messages, g_account_number, g_sequence, g_signed, g_ret>>
ksVars     == <<ks_msg, ks_ret>>
hidVars    == <<dev_app, dev_log, hid_in, hid_pc, hid_cache, hid_ret, hid_call>>
cvVars     == <<cv_len, cv_pc, cv_idx, cv_sent, cv_response, cv_ret>>
addrVars   == <<ad_in, ad_trace>>
jsonVars   == <<js_in, js_out>>
callVars   == <<call_in, call_out>>
vars       == <<aminoVars, amountVars, grpcVars, ksVars, hidVars, cvVars, addrVars, jsonVars,
                callVars>>

----------------------------------------------------------------------------
(* Bounds of the model *)

MaxTransfers == 2
MaxBuilds    == 2
MaxMessages  == 2
MaxCommands  == 5

----------------------------------------------------------------------------
(* u64 arithmetic on eight little-endian byte limbs *)

RECURSIVE LimbsOf(_, _)
LimbsOf(n, k) == IF k = 0 THEN <<>> ELSE <<n % 256>> \o LimbsOf(n \div 256, k - 1)

\* the u64 whose value is the (small) natural n
U64(n) == LimbsOf(n, 8)

IsZero(x) == \A i \in DOMAIN x : x[i] = 0

\* limb i of x, 0 beyond its length
Limb(x, i) == IF i \in DOMAIN x THEN x[i] ELSE 0

\* column k of the schoolbook product of a and b, before carries
RECURSIVE ColumnSum(_, _, _, _)
ColumnSum(a, b, k, i) ==
    IF i > k THEN 0
    ELSE Limb(a, i) * Limb(b, k + 1 - i) + ColumnSum(a, b, k, i + 1)

\* the exact product of two 8-limb numbers as 16 limbs
RECURSIVE MulCarry(_, _, _, _)
MulCarry(a, b, k, carry) ==
    IF k > 16 THEN <<>>
    ELSE LET s == ColumnSum(a, b, k, 1) + carry
         IN  <<s % 256>> \o MulCarry(a, b, k + 1, s \div 256)

MulWide(a, b) == MulCarry(a, b, 1, 0)

\* the product does not fit 64 bits
MulOverflows(a, b) == \E i \in 9..16 : MulWide(a, b)[i] # 0

\* u64::wrapping_mul
WrappingMul(a, b) == SubSeq(MulWide(a, b), 1, 8)

\* x / 10 and x % 10, by long division from the most significant limb
RECURSIVE DivMod10(_, _, _)
DivMod10(x, i, rem) ==
    IF i = 0 THEN [q |-> <<>>, r |-> rem]
    ELSE LET cur  == rem * 256 + x[i]
             rest == DivMod10(x, i - 1, cur % 10)
         IN  [q |-> rest.q \o <<cur \div 10>>, r |-> rest.r]

Digit(d) == <<"0", "1", "2", "3", "4", "5", "6", "7", "8", "9">>[d + 1]

RECURSIVE Digits(_)
Digits(x) ==
    IF IsZero(x) THEN <<>>
    ELSE LET dm == DivMod10(x, Len(x), 0) IN Digits(dm.q) \o <<Digit(dm.r)>>

\* u64::to_string
U64ToString(x) == IF IsZero(x) THEN <<"0">> ELSE Digits(x)

----------------------------------------------------------------------------
(* Characters, strings and bytes *)

\* the code point of every character the model uses (newline and printable ASCII)
AsciiTable ==
    ("\n" :> 10) @@ (" " :> 32) @@ ("!" :> 33) @@ ("\"" :> 34) @@ ("#" :> 35) @@ ("$" :> 36) @@
    ("%" :> 37) @@ ("&" :> 38) @@ ("'" :> 39) @@ ("(" :> 40) @@ (")" :> 41) @@ ("*" :> 42) @@
    ("+" :> 43) @@ ("," :> 44) @@ ("-" :> 45) @@ ("." :> 46) @@ ("/" :> 47) @@ ("0" :> 48) @@
    ("1" :> 49) @@ ("2" :> 50) @@ ("3" :> 51) @@ ("4" :> 52) @@ ("5" :> 53) @@ ("6" :> 54) @@
    ("7" :> 55) @@ ("8" :> 56) @@ ("9" :> 57) @@ (":" :> 58) @@ (";" :> 59) @@ ("<" :> 60) @@
    ("=" :> 61) @@ (">" :> 62) @@ ("?" :> 63) @@ ("@" :> 64) @@ ("A" :> 65) @@ ("B" :> 66) @@
    ("C" :> 67) @@ ("D" :> 68) @@ ("E" :> 69) @@ ("F" :> 70) @@ ("G" :> 71) @@ ("H" :> 72) @@
    ("I" :> 73) @@ ("J" :> 74) @@ ("K" :> 75) @@ ("L" :> 76) @@ ("M" :> 77) @@ ("N" :> 78) @@
    ("O" :> 79) @@ ("P" :> 80) @@ ("Q" :> 81) @@ ("R" :> 82) @@ ("S" :> 83) @@ ("T" :> 84) @@
    ("U" :> 85) @@ ("V" :> 86) @@ ("W" :> 87) @@ ("X" :> 88) @@ ("Y" :> 89) @@ ("Z" :> 90) @@
    ("[" :> 91) @@ ("\\" :> 92) @@ ("]" :> 93) @@ ("^" :> 94) @@ ("_" :> 95) @@
    ("a" :> 97) @@ ("b" :> 98) @@ ("c" :> 99) @@ ("d" :> 100) @@ ("e" :> 101) @@ ("f" :> 102) @@
    ("g" :> 103) @@ ("h" :> 104) @@ ("i" :> 105) @@ ("j" :> 106) @@ ("k" :> 107) @@ ("l" :> 108) @@
    ("m" :> 109) @@ ("n" :> 110) @@ ("o" :> 111) @@ ("p" :> 112) @@ ("q" :> 113) @@ ("r" :> 114) @@
    ("s" :> 115) @@ ("t" :> 116) @@ ("u" :> 117) @@ ("v" :> 118) @@ ("w" :> 119) @@ ("x" :> 120) @@
    ("y" :> 121) @@ ("z" :> 122) @@ ("{" :> 123) @@ ("|" :> 124) @@ ("}" :> 125) @@ ("~" :> 126)

CharCode(c) == AsciiTable[c]

\* str::as_bytes for ASCII text
AsBytes(s) == [i \in DOMAIN s |-> CharCode(s[i])]

\* the lexicographic order on strings that sorting object keys uses
RECURSIVE StrLess(_, _)
StrLess(a, b) ==
    IF Len(b) = 0 THEN FALSE
    ELSE IF Len(a) = 0 THEN TRUE
    ELSE IF CharCode(Head(a)) # CharCode(Head(b)) THEN CharCode(Head(a)) < CharCode(Head(b))
    ELSE StrLess(Tail(a), Tail(b))

RECURSIVE Concat(_)
Concat(ss) == IF Len(ss) = 0 THEN <<>> ELSE Head(ss) \o Concat(Tail(ss))

\* str::replace(c, "") for a one-character pattern
RemoveChar(s, c) == SelectSeq(s, LAMBDA x : x # c)

\* str::to_lowercase on ASCII text
LowerChar(c) ==
    IF CharCode(c) >= 65 /\ CharCode(c) <= 90
    THEN CHOOSE d \in DOMAIN AsciiTable : AsciiTable[d] = CharCode(c) + 32
    ELSE c

to_lowercase(s) == [i \in DOMAIN s |-> LowerChar(s[i])]

----------------------------------------------------------------------------
(* base64 (standard alphabet, padded) *)

B64Alphabet ==
    <<"A", "B", "C", "D", "E", "F", "G", "H", "I", "J", "K", "L", "M", "N", "O", "P",
      "Q", "R", "S", "T", "U", "V", "W", "X", "Y", "Z", "a", "b", "c", "d", "e", "f",
      "g", "h", "i", "j", "k", "l", "m", "n", "o", "p", "q", "r", "s", "t", "u", "v",
      "w", "x", "y", "z", "0", "1", "2", "3", "4", "5", "6", "7", "8", "9", "+", "/">>

B64Char(v) == B64Alphabet[v + 1]

\* the byte at position i, 0 beyond the end
ByteAt(bytes, i) == IF i <= Len(bytes) THEN bytes[i] ELSE 0

\* base64::encode: every 3 bytes become 4 symbols, the last group is padded
Base64Encode(bytes) ==
    [k \in 1..(4 * ((Len(bytes) + 2) \div 3)) |->
        LET g  == (k - 1) \div 4
            r  == (k - 1) % 4
            b1 == ByteAt(bytes, 3 * g + 1)
            b2 == ByteAt(bytes, 3 * g + 2)
            b3 == ByteAt(bytes, 3 * g + 3)
        IN  IF r = 0 THEN B64Char(b1 \div 4)
            ELSE IF r = 1 THEN B64Char((b1 % 4) * 16 + b2 \div 16)
            ELSE IF r = 2 THEN
                IF 3 * g + 2 > Len(bytes) THEN "=" ELSE B64Char((b2 % 16) * 4 + b3 \div 64)
            ELSE IF 3 * g + 3 > Len(bytes) THEN "=" ELSE B64Char(b3 % 64)]

IsB64Char(c) == \E i \in DOMAIN B64Alphabet : B64Alphabet[i] = c

B64Value(c) == (CHOOSE i \in DOMAIN B64Alphabet : B64Alphabet[i] = c) - 1

\* the trailing padding removed (at most two "=")
StripPadding(s) ==
    IF Len(s) >= 2 /\ s[Len(s)] = "=" /\ s[Len(s) - 1] = "=" THEN SubSeq(s, 1, Len(s) - 2)
    ELSE IF Len(s) >= 1 /\ s[Len(s)] = "=" THEN SubSeq(s, 1, Len(s) - 1)
    ELSE s

\* the 6-bit value at position i, 0 beyond the end
SymbolAt(s, i) == IF i <= Len(s) THEN B64Value(s[i]) ELSE 0

\* every 4 symbols become 3 bytes
DecodeGroups(s) ==
    [j \in 1..((Len(s) * 3) \div 4) |->
        LET g  == (j - 1) \div 3
            r  == (j - 1) % 3
            v1 == SymbolAt(s, 4 * g + 1)
            v2 == SymbolAt(s, 4 * g + 2)
            v3 == SymbolAt(s, 4 * g + 3)
            v4 == SymbolAt(s, 4 * g + 4)
        IN  IF r = 0 THEN v1 * 4 + v2 \div 16
            ELSE IF r = 1 THEN (v2 % 16) * 16 + v3 \div 4
            ELSE (v3 % 4) * 64 + v4]

\* base64::decode: an error on a symbol outside the alphabet, on an impossible
\* length and on non-zero trailing bits, otherwise the decoded bytes
Base64Decode(s) ==
    LET body == StripPadding(s)
        n    == Len(body)
    IN  IF \E i \in DOMAIN body : ~IsB64Char(body[i]) THEN [ok |-> FALSE, bytes |-> <<>>]
        ELSE IF n % 4 = 1 THEN [ok |-> FALSE, bytes |-> <<>>]
        ELSE IF n % 4 = 2 /\ B64Value(body[n]) % 16 # 0 THEN [ok |-> FALSE, bytes |-> <<>>]
        ELSE IF n % 4 = 3 /\ B64Value(body[n]) % 4 # 0 THEN [ok |-> FALSE, bytes |-> <<>>]
        ELSE [ok |-> TRUE, bytes |-> DecodeGroups(body)]

----------------------------------------------------------------------------
(* Amount and Fee (src/src/types/basic.rs) *)

\* 1 Cro = 100_000_000 Basecro
CRO == 100000000

\* Amount::new.  The result is always in Basecro.  A Cro amount is multiplied
\* by CRO in u64 arithmetic: when the product does not fit, a build with
\* overflow checks panics and a build without them wraps, so the operator
\* yields the set of outcomes a build can produce.
Amount_new(amount, denom) ==
    IF denom = "basecro"
    THEN {[panic |-> FALSE, value |-> [denom |-> "basecro", amount |-> amount]]}
    ELSE IF MulOverflows(amount, U64(CRO))
    THEN {[panic |-> TRUE, value |-> [denom |-> "basecro", amount |-> U64(0)]],
          [panic |-> FALSE,
           value |-> [denom |-> "basecro", amount |-> WrappingMul(amount, U64(CRO))]]}
    ELSE {[panic |-> FALSE,
           value |-> [denom |-> "basecro", amount |-> WrappingMul(amount, U64(CRO))]]}

None == [some |-> FALSE]
Some(v) == [some |-> TRUE, v |-> v]

\* Option::unwrap_or
unwrap_or(opt, default) == IF opt.some THEN opt.v ELSE default

\* a fee that ignores the configured gas
get_fee_fixed_gas(b_gas, b_fee) == [gas |-> U64(20000), amount |-> <<b_fee>>]

\* TransferBuilder::get_fee
get_fee(b_gas, b_fee) == [gas |-> unwrap_or(b_gas, U64(20000)), amount |-> <<b_fee>>]

----------------------------------------------------------------------------
(* JSON values and their serialization *)

JStr(s) == [t |-> "string", s |-> s]
\* a number, as a u64 field without serde_to_str is written
JNum(n) == [t |-> "number", n |-> n]
JArr(a) == [t |-> "array", a |-> a]
\* an object is the sequence of its <<key, value>> members
JObj(m) == [t |-> "object", m |-> m]

\* the text of a string literal
Lit_basecro == <<"b", "a", "s", "e", "c", "r", "o">>
Lit_cro     == <<"c", "r", "o">>
Lit_MsgSend == <<"c", "o", "s", "m", "o", "s", "-", "s", "d", "k", "/",
                 "M", "s", "g", "S", "e", "n", "d">>

\* the field names serde writes for SignMsg
SignMsg_keys ==
    [account_number |-> <<"a", "c", "c", "o", "u", "n", "t", "_", "n", "u", "m", "b", "e", "r">>,
     sequence |-> <<"s", "e", "q", "u", "e", "n", "c", "e">>, chain_id |-> <<"c", "h", "a", "i", "n", "_", "i", "d">>,
     memo |-> <<"m", "e", "m", "o">>, fee |-> <<"f", "e", "e">>, msgs |-> <<"m", "s", "g", "s">>]
\* the field names serde writes for Amount and for Fee
Amount_keys == [denom |-> <<"d", "e", "n", "o", "m">>, amount |-> <<"a", "m", "o", "u", "n", "t">>]
Fee_keys    == [gas |-> <<"g", "a", "s">>, amount |-> <<"a", "m", "o", "u", "n", "t">>]
\* the field names serde writes for Transfer and TransferValue
Transfer_keys ==
    [type |-> <<"t", "y", "p", "e">>, value |-> <<"v", "a", "l", "u", "e">>,
     from_address |-> <<"f", "r", "o", "m", "_", "a", "d", "d", "r", "e", "s", "s">>,
     to_address |-> <<"t", "o", "_", "a", "d", "d", "r", "e", "s", "s">>,
     amount |-> <<"a", "m", "o", "u", "n", "t">>]

\* #[serde(rename_all = "lowercase")] on Denom
DenomStr(d) == IF d = "basecro" THEN Lit_basecro ELSE Lit_cro

\* an Amount whose magnitude is written as a plain u64
AmountJson_plain_u64(a) ==
    JObj(<< <<Amount_keys.denom, JStr(DenomStr(a.denom))>>,
            <<Amount_keys.amount, JNum(a.amount)>> >>)

\* Serialize for Amount: the magnitude goes through serde_to_str
AmountJson(a) ==
    JObj(<< <<Amount_keys.denom, JStr(DenomStr(a.denom))>>,
            <<Amount_keys.amount, JStr(U64ToString(a.amount))>> >>)

\* Serialize for Fee
FeeJson(f) ==
    JObj(<< <<Fee_keys.gas, JStr(U64ToString(f.gas))>>,
            <<Fee_keys.amount, JArr([i \in DOMAIN f.amount |-> AmountJson(f.amount[i])])>> >>)

\* Serialize for Transfer and TransferValue
TransferJson(tr) ==
    JObj(<< <<Transfer_keys.type, JStr(tr.transfer_type)>>,
            <<Transfer_keys.value,
              JObj(<< <<Transfer_keys.from_address, JStr(tr.value.from_address)>>,
                      <<Transfer_keys.to_address, JStr(tr.value.to_address)>>,
                      <<Transfer_keys.amount,
                        JArr([i \in DOMAIN tr.value.amount |->
                                 AmountJson(tr.value.amount[i])])>> >>)>> >>)

\* serde_json::to_value of a SignMsg, members in declaration order
SignMsgJson(sm) ==
    JObj(<< <<SignMsg_keys.account_number, JStr(U64ToString(sm.account_number))>>,
            <<SignMsg_keys.sequence, JStr(U64ToString(sm.sequence))>>,
            <<SignMsg_keys.chain_id, JStr(sm.chain_id)>>,
            <<SignMsg_keys.memo, JStr(sm.memo)>>,
            <<SignMsg_keys.fee, FeeJson(sm.fee)>>,
            <<SignMsg_keys.msgs, JArr([i \in DOMAIN sm.msgs |-> TransferJson(sm.msgs[i])])>> >>)

\* the members of an object sorted by key (insertion sort)
RECURSIVE InsertMember(_, _)
InsertMember(sorted, kv) ==
    IF Len(sorted) = 0 THEN <<kv>>
    ELSE IF StrLess(kv[1], Head(sorted)[1]) THEN <<kv>> \o sorted
    ELSE <<Head(sorted)>> \o InsertMember(Tail(sorted), kv)

RECURSIVE SortMembers(_)
SortMembers(m) ==
    IF Len(m) = 0 THEN <<>> ELSE InsertMember(SortMembers(Tail(m)), Head(m))

\* the text of a JSON string literal: quote, backslash and newline are escaped
EscapeChar(c) ==
    IF c = "\"" THEN <<"\\", "\"">>
    ELSE IF c = "\\" THEN <<"\\", "\\">>
    ELSE IF c = "\n" THEN <<"\\", "n">>
    ELSE <<c>>

QuotedString(s) == <<"\"">> \o Concat([i \in DOMAIN s |-> EscapeChar(s[i])]) \o <<"\"">>

\* sorted_json::to_json: keys sorted at every level, one member or element
\* per line, two spaces of indentation per level, ": " after a key
RECURSIVE to_json_(_, _)
to_json_(v, prefix) ==
    LET prefix2 == prefix \o <<" ", " ">>
    IN  IF v.t = "string" THEN QuotedString(v.s)
        ELSE IF v.t = "number" THEN U64ToString(v.n)
        ELSE IF v.t = "array" THEN
            IF Len(v.a) = 0 THEN <<"[", "]">>
            ELSE <<"[", "\n">>
                 \o Concat([i \in DOMAIN v.a |->
                        prefix2 \o to_json_(v.a[i], prefix2)
                        \o (IF i < Len(v.a) THEN <<",", "\n">> ELSE <<"\n">>)])
                 \o prefix \o <<"]">>
        ELSE
            LET m == SortMembers(v.m)
            IN  IF Len(m) = 0 THEN <<"{", "}">>
                ELSE <<"{", "\n">>
                     \o Concat([i \in DOMAIN m |->
                            prefix2 \o QuotedString(m[i][1]) \o <<":", " ">>
                            \o to_json_(m[i][2], prefix2)
                            \o (IF i < Len(m) THEN <<",", "\n">> ELSE <<"\n">>)])
                     \o prefix \o <<"}">>

to_json(v) == to_json_(v, <<>>)

\* TransferBuilder::sign, the sign string:
\*   sorted_json::to_json(&value).replace("\n", "").replace(" ", "")
sign_str(sm) == RemoveChar(RemoveChar(to_json(SignMsgJson(sm)), "\n"), " ")

----------------------------------------------------------------------------
(* Software key service (src/src/key_service.rs) *)

\* stand-in for SHA-256: a 32-byte digest that depends on every byte of the
\* message and on its position
RECURSIVE WeightedSum(_, _, _)
WeightedSum(bytes, lo, hi) ==
    IF lo > hi THEN 0
    ELSE IF lo = hi THEN ((lo % 251) + 1) * (bytes[lo] + 1)
    ELSE LET mid == (lo + hi) \div 2
         IN  (WeightedSum(bytes, lo, mid) + WeightedSum(bytes, mid + 1, hi)) % 65521

MixBytes(bytes, i, h) == (WeightedSum(bytes, i, Len(bytes)) + h + 31 * Len(bytes)) % 65521

sha256(bytes) == LET h == MixBytes(bytes, 1, 7) IN [i \in 1..32 |-> (h \div i + 13 * i) % 256]

\* stand-in for secp256k1 signing followed by serialize_compact: 64 bytes r || s
serialize_compact(digest) == [i \in 1..64 |-> (digest[((i - 1) % 32) + 1] + 3 * i) % 256]

\* KeyService::sign: base64 of the 64-byte compact signature of SHA-256(msg)
KeyService_sign(msg) == Base64Encode(serialize_compact(sha256(msg)))

\* the signer's compressed public key (33 bytes) and PublicKey::to_string
PublicKeyBytes == [i \in 1..33 |-> IF i = 1 THEN 2 ELSE (41 * i) % 256]
PublicKey_to_string(pk) == Base64Encode(pk)

Lit_PubKeySecp256k1 ==
    <<"t", "e", "n", "d", "e", "r", "m", "i", "n", "t", "/",
      "P", "u", "b", "K", "e", "y", "S", "e", "c", "p", "2", "5", "6", "k", "1">>

\* From<PublicKey> for PublicKeyWrap
PublicKeyWrap(pk) == [p_type |-> Lit_PubKeySecp256k1, value |-> PublicKey_to_string(pk)]

\* the signer's own address and a destination, as bech32 text
SignerAddress == <<"c", "r", "o", "1", "u", "9", "q">>
ToAddresses   == {<<"c", "r", "o", "1", "s", "2", "g">>}

----------------------------------------------------------------------------
(* Amino TransferBuilder (src/src/tx_builder/amino.rs) *)

NoTx == [mode |-> "none"]

Ret(op, kind, err, tx) == [op |-> op, kind |-> kind, err |-> err, tx |-> tx]

\* the inputs the calls are tried with
\* the (gas, memo) pairs TransferBuilder::new is called with
NewArgs        == {<<None, Some(<<"a", " ", "b">>)>>, <<Some(U64(300000)), None>>}
\* the (account_number, sequence, sync_mode) triples build is called with
BuildArgs      == {<<U64(0), U64(0), "sync">>, <<U64(9), U64(4), "block">>}
\* the smallest Cro amount whose Basecro value exceeds 64 bits
MinCroOverflow == <<98, 196, 29, 243, 42, 0, 0, 0>>
\* the (amount, denom) pairs add_transfer is called with
TransferInputs == {<<U64(1), "basecro">>, <<U64(2), "cro">>, <<MinCroOverflow, "cro">>}

\* TransferBuilder::new
AminoInit ==
    /\ fee = [denom |-> "basecro", amount |-> U64(100000)]
    /\ \E args \in NewArgs :
          /\ gas = args[1]
          /\ memo = unwrap_or(args[2], <<>>)
    /\ chain_id = <<"t", "e", "s", "t">>
    /\ signatures = <<>>
    /\ transfers = <<>>
    /\ amino_ret = Ret("new", "ok", "", NoTx)
    /\ build_log = <<>>

\* a builder that is never used
AminoIdle ==
    /\ fee = [denom |-> "basecro", amount |-> U64(0)]
    /\ gas = None
    /\ memo = <<>>
    /\ chain_id = <<>>
    /\ signatures = <<>>
    /\ transfers = <<>>
    /\ amino_ret = Ret("none", "ok", "", NoTx)
    /\ build_log = <<>>

\* Transfer::new and TransferValue::new
Transfer_new(from_address, to_address, amount) ==
    [transfer_type |-> Lit_MsgSend,
     value |-> [from_address |-> from_address, to_address |-> to_address,
                amount |-> <<amount>>]]

\* TransferBuilder::add_transfer
add_transfer(amount, denom, to_address, address_ok) ==
    /\ amino_ret.kind # "panic"
    /\ Len(transfers) < MaxTransfers
    /\ IF ~address_ok
       THEN /\ amino_ret' = Ret("add_transfer", "err", "address", NoTx)
            /\ UNCHANGED transfers
       ELSE \E r \in Amount_new(amount, denom) :
              IF r.panic
              THEN /\ amino_ret' = Ret("add_transfer", "panic", "overflow", NoTx)
                   /\ UNCHANGED transfers
              ELSE /\ transfers' = Append(transfers,
                                          Transfer_new(SignerAddress, to_address, r.value))
                   /\ amino_ret' = Ret("add_transfer", "ok", "", NoTx)
    /\ UNCHANGED <<fee, gas, memo, chain_id, signatures, build_log>>

\* the SignMsg that TransferBuilder::sign assembles
SignMsg(account_number, sequence) ==
    [account_number |-> account_number, sequence |-> sequence,
     chain_id |-> chain_id, memo |-> memo,
     fee |-> get_fee(gas, fee), msgs |-> transfers]

\* a Signature whose counters are stored in each other's field
Signature_counters_swapped(signature, account_number, sequence) ==
    [signature |-> signature, pub_key |-> PublicKeyWrap(PublicKeyBytes),
     account_number |-> sequence, sequence |-> account_number]

\* the Signature that TransferBuilder::sign pushes
Signature(signature, account_number, sequence) ==
    [signature |-> signature, pub_key |-> PublicKeyWrap(PublicKeyBytes),
     account_number |-> account_number, sequence |-> sequence]

\* a builder that keeps only the signature of the latest build
sign_push_replaces(sigs, signature) == <<signature>>

\* TransferBuilder::sign: the signature list after the call
sign_push(sigs, signature) == Append(sigs, signature)

\* a build that records the signature before asking for the public key
build_pushes_before_public_key(account_number, sequence, sync_mode, sign_ok, pk_ok) ==
    /\ amino_ret.kind # "panic"
    /\ Len(signatures) < MaxBuilds
    /\ LET text == sign_str(SignMsg(account_number, sequence))
           sig  == Signature(KeyService_sign(AsBytes(text)), account_number, sequence)
       IN  IF ~sign_ok
           THEN /\ amino_ret' = Ret("build", "err", "sign", NoTx)
                /\ UNCHANGED <<signatures, build_log>>
           ELSE /\ signatures' = sign_push(signatures, sig)
                /\ build_log' = Append(build_log,
                       [account_number |-> account_number, sequence |-> sequence,
                        sync_mode |-> sync_mode, msgs |-> transfers, signed |-> text])
                /\ IF ~pk_ok
                   THEN amino_ret' = Ret("build", "err", "public_key", NoTx)
                   ELSE amino_ret' = Ret("build", "ok", "",
                           [tx |-> [messages |-> transfers, fee |-> get_fee(gas, fee),
                                    memo |-> memo, signatures |-> signatures'],
                            mode |-> sync_mode])
    /\ UNCHANGED <<fee, gas, memo, chain_id, transfers>>

\* TransferBuilder::build, with TransferBuilder::sign inlined
build(account_number, sequence, sync_mode, sign_ok, pk_ok) ==
    /\ amino_ret.kind # "panic"
    /\ Len(signatures) < MaxBuilds
    /\ IF ~sign_ok
       THEN /\ amino_ret' = Ret("build", "err", "sign", NoTx)
            /\ UNCHANGED <<signatures, build_log>>
       ELSE IF ~pk_ok
       THEN /\ amino_ret' = Ret("build", "err", "public_key", NoTx)
            /\ UNCHANGED <<signatures, build_log>>
       ELSE \E text \in {sign_str(SignMsg(account_number, sequence))} :
            \E sig \in {Signature(KeyService_sign(AsBytes(text)), account_number, sequence)} :
                /\ signatures' = sign_push(signatures, sig)
                /\ build_log' = Append(build_log,
                       [account_number |-> account_number, sequence |-> sequence,
                        sync_mode |-> sync_mode, msgs |-> transfers, signed |-> text])
                /\ amino_ret' = Ret("build", "ok", "",
                       [tx |-> [messages |-> transfers, fee |-> get_fee(gas, fee),
                                memo |-> memo, signatures |-> signatures'],
                        mode |-> sync_mode])
    /\ UNCHANGED <<fee, gas, memo, chain_id, transfers>>

AddTransfer ==
    \E input \in TransferInputs, to \in ToAddresses, address_ok \in BOOLEAN :
        /\ add_transfer(input[1], input[2], to, address_ok)
        /\ UNCHANGED <<amountVars, grpcVars, ksVars, hidVars, cvVars, addrVars, jsonVars, callVars>>

Build ==
    \E args \in BuildArgs, sign_ok \in BOOLEAN, pk_ok \in BOOLEAN :
        /\ build(args[1], args[2], args[3], sign_ok, pk_ok)
        /\ UNCHANGED <<amountVars, grpcVars, ksVars, hidVars, cvVars, addrVars, jsonVars, callVars>>


----------------------------------------------------------------------------
(* Amount::new on its own *)

NoOutcome == [panic |-> FALSE, value |-> [denom |-> "none", amount |-> U64(0)]]

\* the largest Cro amount whose Basecro value fits 64 bits
MaxCroFit == <<97, 196, 29, 243, 42, 0, 0, 0>>

\* u64 inputs: every limb 0 or 255, and the values around the overflow boundary
AmountInputs ==
    {x \in [1..8 -> {0, 255}] : TRUE}
        \cup {U64(1), U64(CRO), MaxCroFit, MinCroOverflow}

AmountInit ==
    /\ am_in \in [amount : AmountInputs, denom : {"basecro", "cro"}]
    /\ am_out = NoOutcome

AmountIdle ==
    /\ am_in = [amount |-> U64(0), denom |-> "basecro"]
    /\ am_out = NoOutcome

AmountNew ==
    /\ am_out = NoOutcome
    /\ am_out' \in Amount_new(am_in.amount, am_in.denom)
    /\ UNCHANGED <<am_in, aminoVars, grpcVars, ksVars, hidVars, cvVars, addrVars, jsonVars, callVars>>


----------------------------------------------------------------------------
(* Protobuf wire encoding as prost produces it *)

Bit(x, i) == IF i > 63 THEN 0 ELSE (x[(i \div 8) + 1] \div (2 ^ (i % 8))) % 2

\* the number of significant bits of a u64
SigBits(x) ==
    IF IsZero(x) THEN 0
    ELSE 1 + CHOOSE i \in 0..63 : Bit(x, i) = 1 /\ \A j \in (i + 1)..63 : Bit(x, j) = 0

Group7(x, k) ==
    Bit(x, 7 * k) + 2 * Bit(x, 7 * k + 1) + 4 * Bit(x, 7 * k + 2) + 8 * Bit(x, 7 * k + 3)
        + 16 * Bit(x, 7 * k + 4) + 32 * Bit(x, 7 * k + 5) + 64 * Bit(x, 7 * k + 6)

\* base-128 varint, least significant group first
Varint(x) ==
    LET n == IF SigBits(x) <= 7 THEN 1 ELSE (SigBits(x) + 6) \div 7
    IN  [k \in 1..n |-> Group7(x, k - 1) + (IF k < n THEN 128 ELSE 0)]

\* a uint64 field: omitted when zero
PbUint64(field, x) == IF IsZero(x) THEN <<>> ELSE <<field * 8>> \o Varint(x)

\* a string or bytes field: omitted when empty
PbBytes(field, bytes) ==
    IF Len(bytes) = 0 THEN <<>>
    ELSE <<field * 8 + 2>> \o Varint(U64(Len(bytes))) \o bytes

\* an embedded message or an element of a repeated field: always written
PbMessage(field, bytes) == <<field * 8 + 2>> \o Varint(U64(Len(bytes))) \o bytes

ProstAny(type_url, value) == [type_url |-> type_url, value |-> value]

EncodeAny(a) == PbBytes(1, AsBytes(a.type_url)) \o PbBytes(2, a.value)

EncodeCoin(c) == PbBytes(1, AsBytes(c.denom)) \o PbBytes(2, AsBytes(c.amount))

EncodeFee(f) ==
    Concat([i \in DOMAIN f.amount |-> PbMessage(1, EncodeCoin(f.amount[i]))])
        \o PbUint64(2, f.gas_limit)
        \o PbBytes(3, AsBytes(f.payer)) \o PbBytes(4, AsBytes(f.granter))

EncodeTxBody(b) ==
    Concat([i \in DOMAIN b.messages |-> PbMessage(1, EncodeAny(b.messages[i]))])
        \o PbBytes(2, AsBytes(b.memo)) \o PbUint64(3, b.timeout_height)

\* ModeInfo { sum: Single { mode } }
EncodeModeInfo(mode) == PbMessage(1, PbUint64(1, U64(mode)))

EncodeSignerInfo(si) ==
    PbMessage(1, EncodeAny(si.public_key))
        \o PbMessage(2, EncodeModeInfo(si.mode))
        \o PbUint64(3, si.sequence)

EncodeAuthInfo(ai) ==
    Concat([i \in DOMAIN ai.signer_infos |-> PbMessage(1, EncodeSignerInfo(ai.signer_infos[i]))])
        \o (IF ai.fee.some THEN PbMessage(2, EncodeFee(ai.fee.v)) ELSE <<>>)

EncodeSignDoc(sd) ==
    PbBytes(1, sd.body_bytes) \o PbBytes(2, sd.auth_info_bytes)
        \o PbBytes(3, AsBytes(sd.chain_id)) \o PbUint64(4, sd.account_number)

EncodeTxRaw(tx) ==
    PbBytes(1, tx.body_bytes) \o PbBytes(2, tx.auth_info_bytes)
        \o Concat([i \in DOMAIN tx.signatures |-> PbMessage(3, tx.signatures[i])])

----------------------------------------------------------------------------
(* Protobuf TxBuilder (src/src/tx_builder/grpc.rs) *)

Lit_PubKeyUrl ==
    <<"/", "c", "o", "s", "m", "o", "s", ".", "c", "r", "y", "p", "t", "o", ".",
      "s", "e", "c", "p", "2", "5", "6", "k", "1", ".", "P", "u", "b", "K", "e", "y">>
Lit_MsgSendUrl ==
    <<"/", "c", "o", "s", "m", "o", "s", ".", "b", "a", "n", "k", ".",
      "v", "1", "b", "e", "t", "a", "1", ".", "M", "s", "g", "S", "e", "n", "d">>

\* TxBuilder::pk_any: the key bytes wrapped as a one-field message
pk_any(pk) == ProstAny(Lit_PubKeyUrl, PbBytes(1, pk))

\* TxBuilder::raw_tx_body
raw_tx_body(cfg, messages) ==
    EncodeTxBody([messages |-> messages, memo |-> unwrap_or(cfg.memo, <<>>),
                  timeout_height |-> cfg.timeout_height])

\* TxBuilder::auth_info
auth_info(cfg, sequence, pk) ==
    [signer_infos |-> <<[public_key |-> pk_any(pk), mode |-> 1, sequence |-> sequence]>>,
     fee |-> cfg.fee]

\* TxBuilder::sign_doc
sign_doc(cfg, messages, account_number, sequence, pk) ==
    [body_bytes |-> raw_tx_body(cfg, messages),
     auth_info_bytes |-> EncodeAuthInfo(auth_info(cfg, sequence, pk)),
     chain_id |-> cfg.chain_id,
     account_number |-> account_number]

\* TxBuilder::create_msg: a MsgSend from the signer's address, wrapped with its type URL
EncodeMsgSend(m) ==
    PbBytes(1, AsBytes(m.from_address)) \o PbBytes(2, AsBytes(m.to_address))
        \o Concat([i \in DOMAIN m.amount |-> PbMessage(3, EncodeCoin(m.amount[i]))])

create_msg(from_address, to_address, amount) ==
    ProstAny(Lit_MsgSendUrl,
        EncodeMsgSend([from_address |-> from_address, to_address |-> to_address,
                       amount |-> <<amount>>]))

\* what the current build call handed to the signer, if it got that far
NoSignDoc == [asked |-> FALSE]
NoTxRaw   == [body_bytes |-> <<>>, auth_info_bytes |-> <<>>, signatures |-> <<>>]

GRet(op, kind, err, tx_raw, text) ==
    [op |-> op, kind |-> kind, err |-> err, tx_raw |-> tx_raw, text |-> text]

Lit_10000 == <<"1", "0", "0", "0", "0">>

GrpcFees ==
    {None,
     Some([amount |-> <<[denom |-> Lit_basecro, amount |-> Lit_10000]>>,
           gas_limit |-> U64(300000), payer |-> <<>>, granter |-> <<>>])}

GrpcMessages ==
    {create_msg(SignerAddress, to, [denom |-> Lit_basecro, amount |-> Lit_10000]) :
        to \in ToAddresses}
        \cup {ProstAny(<<"/", "x">>, <<>>)}

\* TxBuilder::new
GrpcInit ==
    /\ g_cfg \in [chain_id : {<<"t", "e", "s", "t">>},
                  memo : {None, Some(<<"h", "i">>)},
                  timeout_height : {U64(1)},
                  fee : GrpcFees]
    /\ g_messages = <<>>
    /\ g_account_number = U64(0)
    /\ g_sequence = U64(0)
    /\ g_signed = NoSignDoc
    /\ g_ret = GRet("new", "ok", "", NoTxRaw, <<>>)

GrpcIdle ==
    /\ g_cfg = [chain_id |-> <<>>, memo |-> None, timeout_height |-> U64(0), fee |-> None]
    /\ g_messages = <<>>
    /\ g_account_number = U64(0)
    /\ g_sequence = U64(0)
    /\ g_signed = NoSignDoc
    /\ g_ret = GRet("none", "ok", "", NoTxRaw, <<>>)

\* TxBuilder::set_account_number
set_account_number(account_number) ==
    /\ g_account_number' = account_number
    /\ g_ret' = GRet("set_account_number", "ok", "", NoTxRaw, <<>>)
    /\ g_signed' = NoSignDoc
    /\ UNCHANGED <<g_cfg, g_messages, g_sequence>>

\* a set_sequence that also writes the account number
set_sequence_writing_both(sequence) ==
    /\ g_sequence' = sequence
    /\ g_account_number' = sequence
    /\ g_ret' = GRet("set_sequence", "ok", "", NoTxRaw, <<>>)
    /\ g_signed' = NoSignDoc
    /\ UNCHANGED <<g_cfg, g_messages>>

\* TxBuilder::set_sequence
set_sequence(sequence) ==
    /\ g_sequence' = sequence
    /\ g_ret' = GRet("set_sequence", "ok", "", NoTxRaw, <<>>)
    /\ g_signed' = NoSignDoc
    /\ UNCHANGED <<g_cfg, g_messages, g_account_number>>

\* an add_message that puts the new message in front of the earlier ones
add_message_in_front(msg) ==
    /\ Len(g_messages) < MaxMessages
    /\ g_messages' = <<msg>> \o g_messages
    /\ g_ret' = GRet("add_message", "ok", "", NoTxRaw, <<>>)
    /\ g_signed' = NoSignDoc
    /\ UNCHANGED <<g_cfg, g_account_number, g_sequence>>

\* TxBuilder::add_message
add_message(msg) ==
    /\ Len(g_messages) < MaxMessages
    /\ g_messages' = Append(g_messages, msg)
    /\ g_ret' = GRet("add_message", "ok", "", NoTxRaw, <<>>)
    /\ g_signed' = NoSignDoc
    /\ UNCHANGED <<g_cfg, g_account_number, g_sequence>>

\* what a key service may answer to sign(msg): an error, the software signer's
\* signature, or a string that is not base64
SignReplies(msg) ==
    {[ok |-> FALSE, text |-> <<>>],
     [ok |-> TRUE, text |-> KeyService_sign(msg)],
     [ok |-> TRUE, text |-> <<"n", "o", "t", "!", "b", "6", "4">>]}

\* a TxRaw whose auth_info is rebuilt with the default sequence
tx_raw_default_sequence(cfg, messages, sequence, pk, signature) ==
    [body_bytes |-> raw_tx_body(cfg, messages),
     auth_info_bytes |-> EncodeAuthInfo(auth_info(cfg, U64(0), pk)),
     signatures |-> <<signature>>]

\* the TxRaw that TxBuilder::build assembles after signing
tx_raw(cfg, messages, sequence, pk, signature) ==
    [body_bytes |-> raw_tx_body(cfg, messages),
     auth_info_bytes |-> EncodeAuthInfo(auth_info(cfg, sequence, pk)),
     signatures |-> <<signature>>]

\* a build that moves the sequence on once it has built
grpc_build_advancing_sequence(pk1_ok, reply, pk2_ok) ==
    LET sd      == sign_doc(g_cfg, g_messages, g_account_number, g_sequence, PublicKeyBytes)
        buf     == EncodeSignDoc(sd)
        decoded == Base64Decode(reply.text)
        raw     == tx_raw(g_cfg, g_messages, g_sequence, PublicKeyBytes, decoded.bytes)
    IN  IF pk1_ok /\ reply.ok /\ decoded.ok /\ pk2_ok
        THEN /\ g_signed' = [asked |-> TRUE, sign_doc |-> sd, bytes |-> buf, reply |-> reply]
             /\ g_ret' = GRet("build", "ok", "", raw, Base64Encode(EncodeTxRaw(raw)))
             /\ g_sequence' = IF g_sequence = U64(0) THEN U64(4) ELSE U64(0)
             /\ UNCHANGED <<g_cfg, g_messages, g_account_number>>
        ELSE /\ g_ret' = GRet("build", "err", "sign", NoTxRaw, <<>>)
             /\ g_signed' = NoSignDoc
             /\ UNCHANGED <<g_cfg, g_messages, g_account_number, g_sequence>>

grpc_build_accepting_any_reply(pk1_ok, reply, pk2_ok) ==
    LET sd      == sign_doc(g_cfg, g_messages, g_account_number, g_sequence, PublicKeyBytes)
        buf     == EncodeSignDoc(sd)
        decoded == Base64Decode(reply.text)
        raw     == tx_raw(g_cfg, g_messages, g_sequence, PublicKeyBytes, decoded.bytes)
    IN  /\ IF ~pk1_ok
           THEN /\ g_ret' = GRet("build", "err", "public_key", NoTxRaw, <<>>)
                /\ g_signed' = NoSignDoc
           ELSE /\ g_signed' = [asked |-> TRUE, sign_doc |-> sd, bytes |-> buf,
                                reply |-> reply]
                /\ IF ~reply.ok
                   THEN g_ret' = GRet("build", "err", "sign", NoTxRaw, <<>>)
                   ELSE IF ~pk2_ok
                   THEN g_ret' = GRet("build", "err", "public_key", NoTxRaw, <<>>)
                   ELSE g_ret' = GRet("build", "ok", "", raw,
                                      Base64Encode(EncodeTxRaw(raw)))
        /\ UNCHANGED <<g_cfg, g_messages, g_account_number, g_sequence>>

\* TxBuilder::build.  pk1_ok and pk2_ok are the outcomes of the two
\* public_key() calls (in sign_doc and when the TxRaw is assembled).
grpc_build(pk1_ok, reply, pk2_ok) ==
    /\ IF ~pk1_ok
       THEN /\ g_ret' = GRet("build", "err", "public_key", NoTxRaw, <<>>)
            /\ g_signed' = NoSignDoc
       ELSE \E sd \in {sign_doc(g_cfg, g_messages, g_account_number, g_sequence,
                                PublicKeyBytes)} :
            /\ g_signed' = [asked |-> TRUE, sign_doc |-> sd, bytes |-> EncodeSignDoc(sd),
                            reply |-> reply]
            /\ IF ~reply.ok
               THEN g_ret' = GRet("build", "err", "sign", NoTxRaw, <<>>)
               ELSE \E decoded \in {Base64Decode(reply.text)} :
                    IF ~decoded.ok
                    THEN g_ret' = GRet("build", "err", "SerializeError", NoTxRaw, <<>>)
                    ELSE IF ~pk2_ok
                    THEN g_ret' = GRet("build", "err", "public_key", NoTxRaw, <<>>)
                    ELSE \E raw \in {tx_raw(g_cfg, g_messages, g_sequence, PublicKeyBytes,
                                            decoded.bytes)} :
                         g_ret' = GRet("build", "ok", "", raw,
                                       Base64Encode(EncodeTxRaw(raw)))
    /\ UNCHANGED <<g_cfg, g_messages, g_account_number, g_sequence>>

\* the builder's read-only methods pk_any, raw_tx_body, auth_info, sign_doc
\* and create_msg: the encoded value each returns, or the signer's failure.
\* key_ok is the outcome of the signer's public_key() or address() call.
grpc_read(fn, key_ok, to_address, amount) ==
    LET needs_key == fn # "raw_tx_body"
        value ==
            IF fn = "pk_any" THEN EncodeAny(pk_any(PublicKeyBytes))
            ELSE IF fn = "raw_tx_body" THEN raw_tx_body(g_cfg, g_messages)
            ELSE IF fn = "auth_info"
            THEN EncodeAuthInfo(auth_info(g_cfg, g_sequence, PublicKeyBytes))
            ELSE IF fn = "sign_doc"
            THEN EncodeSignDoc(sign_doc(g_cfg, g_messages, g_account_number,
                                        g_sequence, PublicKeyBytes))
            ELSE EncodeAny(create_msg(SignerAddress, to_address, amount))
    IN  /\ g_ret' = IF needs_key /\ ~key_ok
                    THEN [op |-> fn, kind |-> "err",
                          err |-> IF fn = "create_msg" THEN "address" ELSE "public_key",
                          tx_raw |-> NoTxRaw, text |-> <<>>, bytes |-> <<>>]
                    ELSE [op |-> fn, kind |-> "ok", err |-> "",
                          tx_raw |-> NoTxRaw, text |-> <<>>, bytes |-> value]
        /\ g_signed' = NoSignDoc
        /\ UNCHANGED <<g_cfg, g_messages, g_account_number, g_sequence>>

GrpcReadOps == {"pk_any", "raw_tx_body", "auth_info", "sign_doc", "create_msg"}

GrpcRead ==
    \E fn \in GrpcReadOps, key_ok \in BOOLEAN, to \in ToAddresses :
        /\ grpc_read(fn, key_ok, to, [denom |-> Lit_basecro, amount |-> Lit_10000])
        /\ UNCHANGED <<aminoVars, amountVars, ksVars, hidVars, cvVars, addrVars, jsonVars, callVars>>

SetAccountNumber ==
    \E n \in {U64(0), U64(9)} :
        set_account_number(n) /\ UNCHANGED <<aminoVars, amountVars, ksVars, hidVars, cvVars, addrVars, jsonVars, callVars>>

SetSequence ==
    \E n \in {U64(0), U64(4)} :
        set_sequence(n) /\ UNCHANGED <<aminoVars, amountVars, ksVars, hidVars, cvVars, addrVars, jsonVars, callVars>>

AddMessage ==
    \E msg \in GrpcMessages :
        add_message(msg) /\ UNCHANGED <<aminoVars, amountVars, ksVars, hidVars, cvVars, addrVars, jsonVars, callVars>>

GrpcBuild ==
    \E reply \in SignReplies(EncodeSignDoc(
            sign_doc(g_cfg, g_messages, g_account_number, g_sequence, PublicKeyBytes))) :
        \E pk1_ok \in BOOLEAN, pk2_ok \in BOOLEAN :
            /\ grpc_build(pk1_ok, reply, pk2_ok)
            /\ UNCHANGED <<aminoVars, amountVars, ksVars, hidVars, cvVars, addrVars, jsonVars, callVars>>


----------------------------------------------------------------------------
(* Ledger application (src/src/ledger_app.rs) and LedgerServiceHID
   (src/src/key_service/ledger_service.rs) *)

PK_LEN        == 33
SIGNATURE_LEN == 65
\* APDUErrorCodes::NoError, 0x9000
NoError       == 36864
\* a status the device answers when the user rejects, 0x6986
CommandNotAllowed == 27014

Result(kind, err, value) == [kind |-> kind, err |-> err, detail |-> "", value |-> value]

\* an error that carries the text of the error it was mapped from
ErrorOf(err, detail) == [kind |-> "err", err |-> err, detail |-> detail, value |-> <<>>]

\* the bytes a device may return as the payload of a signing response
DeviceData(msg, n) == [i \in 1..n |-> (MixBytes(msg, 1, 11) + 5 * i) % 256]

\* what ledger_zondax_generic::send_chunks may return for a message: an error,
\* or the device's last response
SendChunksResults(msg) ==
    IF Len(msg) = 0 THEN {Result("err", "InvalidEmptyMessage", <<>>)}
    ELSE {Result("err", "Transport", <<>>), Result("err", "AppSpecific", <<>>)}
         \cup {Result("ok", "", [retcode |-> NoError, data |-> DeviceData(msg, n)]) :
                  n \in {0, 10, 64, 65, 72}}

\* CryptoApp::sign, after send_chunks returned
CryptoApp_sign(sent) ==
    IF sent.kind = "err" THEN sent
    ELSE IF Len(sent.value.data) = 0 /\ sent.value.retcode = NoError
    THEN Result("err", "NoSignature", <<>>)
    ELSE IF Len(sent.value.data) < SIGNATURE_LEN
    THEN Result("err", "InvalidSignature", <<>>)
    ELSE Result("ok", "", SubSeq(sent.value.data, 1, SIGNATURE_LEN))

\* LedgerServiceHID::sign: any error becomes LedgerError, the raw signature is
\* base64-encoded
LedgerServiceHID_sign(sent) ==
    LET raw == CryptoApp_sign(sent)
    IN  IF raw.kind = "err" THEN ErrorOf("LedgerError", raw.err)
        ELSE Result("ok", "", Base64Encode(raw.value))

\* the software signer behind the same interface
SoftwareSigner_sign(msg) == Result("ok", "", KeyService_sign(msg))

----------------------------------------------------------------------------
(* The two signers side by side *)

NoResult == Result("none", "", <<>>)

SignMessages ==
    {<<>>} \cup {[i \in 1..n |-> b] : n \in 1..5, b \in {0, 65, 123, 255}}

SignerInit ==
    /\ ks_msg \in SignMessages
    /\ ks_ret = [variant |-> "none", r |-> NoResult]

SignerIdle ==
    /\ ks_msg = <<>>
    /\ ks_ret = [variant |-> "none", r |-> NoResult]

SoftwareSign ==
    /\ ks_ret' = [variant |-> "software", r |-> SoftwareSigner_sign(ks_msg)]
    /\ UNCHANGED <<ks_msg, aminoVars, amountVars, grpcVars, hidVars, cvVars, addrVars, jsonVars, callVars>>

LedgerSign ==
    /\ \E sent \in SendChunksResults(ks_msg) :
           ks_ret' = [variant |-> "ledger", r |-> LedgerServiceHID_sign(sent)]
    /\ UNCHANGED <<ks_msg, aminoVars, amountVars, grpcVars, hidVars, cvVars, addrVars, jsonVars, callVars>>


----------------------------------------------------------------------------
(* LedgerServiceHID::new against a device *)

Lit_cryp == <<"c", "r", "y", "p">>

AppNames ==
    {Lit_cryp, <<"C", "r", "y", "p">>, <<"C", "R", "Y", "P">>,
     <<"c", "r", "y", "p", "t">>, <<"C", "o", "s", "m", "o", "s">>, <<>>}

\* m/44'/394'/0'/0/0 as BIP44Path::serialize writes it
HdPathBytes ==
    <<44, 0, 0, 128, 138, 1, 0, 128, 0, 0, 0, 128, 0, 0, 0, 0, 0, 0, 0, 0>>

Command(op, p1, data) == [op |-> op, p1 |-> p1, p2 |-> 0, data |-> data]

\* well-formed UTF-8, as str::from_utf8 accepts it
RECURSIVE IsUtf8(_)
IsUtf8(b) ==
    LET Cont(i, lo, hi) == i <= Len(b) /\ b[i] >= lo /\ b[i] <= hi
    IN  IF Len(b) = 0 THEN TRUE
        ELSE IF b[1] < 128 THEN IsUtf8(SubSeq(b, 2, Len(b)))
        ELSE IF b[1] >= 194 /\ b[1] <= 223
        THEN Cont(2, 128, 191) /\ IsUtf8(SubSeq(b, 3, Len(b)))
        ELSE IF b[1] >= 224 /\ b[1] <= 239
        THEN /\ Cont(2, IF b[1] = 224 THEN 160 ELSE 128, IF b[1] = 237 THEN 159 ELSE 191)
             /\ Cont(3, 128, 191)
             /\ IsUtf8(SubSeq(b, 4, Len(b)))
        ELSE IF b[1] >= 240 /\ b[1] <= 244
        THEN /\ Cont(2, IF b[1] = 240 THEN 144 ELSE 128, IF b[1] = 244 THEN 143 ELSE 191)
             /\ Cont(3, 128, 191) /\ Cont(4, 128, 191)
             /\ IsUtf8(SubSeq(b, 5, Len(b)))
        ELSE FALSE

\* CryptoApp::get_pubkey_address: the command it sends
get_pubkey_address_command(acc_address_prefix, path, require_confirmation) ==
    Command("get_address", IF require_confirmation THEN 1 ELSE 0,
            <<Len(AsBytes(acc_address_prefix)) % 256>> \o AsBytes(acc_address_prefix) \o path)

\* a reading of the response that looks at the payload before the status
get_pubkey_address_result_length_first(response) ==
    IF Len(response.data) < PK_LEN THEN Result("err", "InvalidPK", <<>>)
    ELSE IF response.retcode # NoError THEN Result("err", "AppSpecific", <<>>)
    ELSE IF ~IsUtf8(SubSeq(response.data, PK_LEN + 1, Len(response.data)))
    THEN Result("err", "Utf8", <<>>)
    ELSE Result("ok", "",
                [public_key |-> SubSeq(response.data, 1, PK_LEN),
                 address |-> SubSeq(response.data, PK_LEN + 1, Len(response.data))])

\* CryptoApp::get_pubkey_address: what it makes of the device's response
get_pubkey_address_result(response) ==
    IF response.retcode # NoError THEN Result("err", "AppSpecific", <<>>)
    ELSE IF Len(response.data) < PK_LEN THEN Result("err", "InvalidPK", <<>>)
    ELSE IF ~IsUtf8(SubSeq(response.data, PK_LEN + 1, Len(response.data)))
    THEN Result("err", "Utf8", <<>>)
    ELSE Result("ok", "",
                [public_key |-> SubSeq(response.data, 1, PK_LEN),
                 address |-> SubSeq(response.data, PK_LEN + 1, Len(response.data))])

\* the address of test_address
DeviceAddress ==
    <<"c", "r", "o", "1", "u", "9", "q", "8", "m", "f", "p", "z", "h", "y", "v", "2", "s", "4",
      "3", "j", "s", "7", "l", "5", "q", "s", "e", "a", "p", "x", "5", "k", "t", "3", "g", "2",
      "r", "f", "7", "p", "p", "f">>

\* the responses a device may hold for the get-address command
AddressResponses ==
    {[retcode |-> NoError, data |-> PublicKeyBytes \o AsBytes(DeviceAddress)],
     [retcode |-> NoError, data |-> [PublicKeyBytes EXCEPT ![1] = 5] \o AsBytes(DeviceAddress)],
     [retcode |-> NoError, data |-> PublicKeyBytes \o AsBytes(SignerAddress)],
     [retcode |-> NoError, data |-> PublicKeyBytes \o <<99, 255>>],
     [retcode |-> NoError, data |-> SubSeq(PublicKeyBytes, 1, 32)],
     [retcode |-> NoError, data |-> <<>>],
     [retcode |-> CommandNotAllowed, data |-> <<>>],
     [retcode |-> CommandNotAllowed, data |-> PublicKeyBytes \o AsBytes(SignerAddress)]}

NoCache == [public_key |-> <<>>, address |-> <<>>]

HidInit ==
    /\ dev_app \in [present : BOOLEAN, app_name : AppNames, major : {1, 2, 3},
                    address : AddressResponses]
    /\ hid_in \in [chain_path_ok : BOOLEAN, require_confirmation : BOOLEAN]
    /\ dev_log = <<>>
    /\ hid_pc = "start"
    /\ hid_cache = NoCache
    /\ hid_ret = NoResult
    /\ hid_call = "none"

HidIdle ==
    /\ dev_app = [present |-> FALSE, app_name |-> <<>>, major |-> 0,
                  address |-> [retcode |-> 0, data |-> <<>>]]
    /\ hid_in = [chain_path_ok |-> FALSE, require_confirmation |-> FALSE]
    /\ dev_log = <<>>
    /\ hid_pc = "start"
    /\ hid_cache = NoCache
    /\ hid_ret = NoResult
    /\ hid_call = "none"

HidFail(err, detail) ==
    /\ hid_pc' = "failed"
    /\ hid_ret' = ErrorOf(err, detail)

\* LedgerServiceHID::new: TransportNativeHID::new and CryptoApp::new
HidConnect ==
    /\ hid_pc = "start"
    /\ IF dev_app.present
       THEN hid_pc' = "app_info" /\ UNCHANGED hid_ret
       ELSE HidFail("LedgerError", "can't find ledger device")
    /\ UNCHANGED <<dev_app, dev_log, hid_in, hid_cache, hid_call>>
    /\ UNCHANGED <<aminoVars, amountVars, grpcVars, ksVars, cvVars, addrVars, jsonVars, callVars>>

\* LedgerServiceHID::new: get_app_info and the application name check
HidGetAppInfo ==
    /\ hid_pc = "app_info"
    /\ dev_log' = Append(dev_log, Command("get_app_info", 0, <<>>))
    /\ \E exchange_ok \in BOOLEAN :
          IF ~exchange_ok THEN HidFail("LedgerError", "get app info failed")
          ELSE IF to_lowercase(dev_app.app_name) # Lit_cryp
          THEN HidFail("LedgerError", "not CRO app")
          ELSE hid_pc' = "version" /\ UNCHANGED hid_ret
    /\ UNCHANGED <<dev_app, hid_in, hid_cache, hid_call>>
    /\ UNCHANGED <<aminoVars, amountVars, grpcVars, ksVars, cvVars, addrVars, jsonVars, callVars>>

\* a constructor that reads the version without comparing it
HidGetVersion_unchecked ==
    /\ hid_pc = "version"
    /\ dev_log' = Append(dev_log, Command("get_version", 0, <<>>))
    /\ \E exchange_ok \in BOOLEAN :
          IF ~exchange_ok THEN HidFail("LedgerError", "get version failed")
          ELSE hid_pc' = "path" /\ UNCHANGED hid_ret
    /\ UNCHANGED <<dev_app, hid_in, hid_cache, hid_call>>
    /\ UNCHANGED <<aminoVars, amountVars, grpcVars, ksVars, cvVars, addrVars, jsonVars, callVars>>

\* LedgerServiceHID::new: get_version and the major version check
HidGetVersion ==
    /\ hid_pc = "version"
    /\ dev_log' = Append(dev_log, Command("get_version", 0, <<>>))
    /\ \E exchange_ok \in BOOLEAN :
          IF ~exchange_ok THEN HidFail("LedgerError", "get version failed")
          ELSE IF dev_app.major # 2
          THEN HidFail("LedgerError", "only support v2 major version")
          ELSE hid_pc' = "path" /\ UNCHANGED hid_ret
    /\ UNCHANGED <<dev_app, hid_in, hid_cache, hid_call>>
    /\ UNCHANGED <<aminoVars, amountVars, grpcVars, ksVars, cvVars, addrVars, jsonVars, callVars>>

\* LedgerServiceHID::new: BIP44Path::from_string
HidParsePath ==
    /\ hid_pc = "path"
    /\ IF hid_in.chain_path_ok
       THEN hid_pc' = "address" /\ UNCHANGED hid_ret
       ELSE HidFail("InputError", "input invalid hd path")
    /\ UNCHANGED <<dev_app, dev_log, hid_in, hid_cache, hid_call>>
    /\ UNCHANGED <<aminoVars, amountVars, grpcVars, ksVars, cvVars, addrVars, jsonVars, callVars>>

\* a constructor that hands its require_confirmation argument to the device
HidGetAddress_confirming ==
    /\ hid_pc = "address"
    /\ dev_log' = Append(dev_log, get_pubkey_address_command(Lit_cro, HdPathBytes,
                                                            hid_in.require_confirmation))
    /\ \E exchange_ok \in BOOLEAN :
          LET r == get_pubkey_address_result(dev_app.address)
          IN  IF ~exchange_ok
              THEN HidFail("LedgerError", "get address failed") /\ UNCHANGED hid_cache
              ELSE IF r.kind = "err"
              THEN HidFail("LedgerError", r.err) /\ UNCHANGED hid_cache
              ELSE /\ hid_pc' = "ready"
                   /\ hid_cache' = r.value
                   /\ hid_ret' = Result("ok", "", <<>>)
    /\ UNCHANGED <<dev_app, hid_in, hid_call>>
    /\ UNCHANGED <<aminoVars, amountVars, grpcVars, ksVars, cvVars, addrVars, jsonVars, callVars>>

\* LedgerServiceHID::new: get_pubkey_address(&acc_address_prefix, &path, false)
HidGetAddress ==
    /\ hid_pc = "address"
    /\ dev_log' = Append(dev_log, get_pubkey_address_command(Lit_cro, HdPathBytes, FALSE))
    /\ \E exchange_ok \in BOOLEAN :
          LET r == get_pubkey_address_result(dev_app.address)
          IN  IF ~exchange_ok
              THEN HidFail("LedgerError", "get address failed") /\ UNCHANGED hid_cache
              ELSE IF r.kind = "err"
              THEN HidFail("LedgerError", r.err) /\ UNCHANGED hid_cache
              ELSE /\ hid_pc' = "ready"
                   /\ hid_cache' = r.value
                   /\ hid_ret' = Result("ok", "", <<>>)
    /\ UNCHANGED <<dev_app, hid_in, hid_call>>
    /\ UNCHANGED <<aminoVars, amountVars, grpcVars, ksVars, cvVars, addrVars, jsonVars, callVars>>

\* KeyService::sign on the constructed LedgerServiceHID
HidSign ==
    /\ hid_pc = "ready"
    /\ Len(dev_log) < MaxCommands
    /\ \E msg \in {<<1, 2, 3>>} :
          /\ dev_log' = Append(dev_log, Command("sign", 0, HdPathBytes))
          /\ \E sent \in SendChunksResults(msg) :
                hid_ret' = LedgerServiceHID_sign(sent)
    /\ hid_call' = "sign"
    /\ UNCHANGED <<dev_app, hid_in, hid_pc, hid_cache>>
    /\ UNCHANGED <<aminoVars, amountVars, grpcVars, ksVars, cvVars, addrVars, jsonVars, callVars>>


----------------------------------------------------------------------------
(* CosmosValidatorApp::sign (src/src/utils/ledger_crypto.rs) *)

CLA                     == 86
INS_SIGN_ED25519        == 2
USER_MESSAGE_CHUNK_SIZE == 250

\* byte i (from 1) of the message that is signed
MessageByte(i) == (7 * i + 1) % 256

\* message.chunks(USER_MESSAGE_CHUNK_SIZE).len()
chunks_len(len) == (len + USER_MESSAGE_CHUNK_SIZE - 1) \div USER_MESSAGE_CHUNK_SIZE

\* the chunk with index packet_idx (from 0): a slice of at most
\* USER_MESSAGE_CHUNK_SIZE bytes, the last one holding the remainder
chunk(len, packet_idx) ==
    LET start == packet_idx * USER_MESSAGE_CHUNK_SIZE
        n     == IF len - start < USER_MESSAGE_CHUNK_SIZE
                 THEN len - start ELSE USER_MESSAGE_CHUNK_SIZE
    IN  [j \in 1..n |-> MessageByte(start + j)]

\* a command that numbers the packets from zero
ApduCommand_zero_based(packet_idx, packet_count, data) ==
    [cla |-> CLA, ins |-> INS_SIGN_ED25519,
     p1 |-> packet_idx % 256, p2 |-> packet_count % 256,
     length |-> Len(data) % 256, data |-> data]

\* the ApduCommand built for one chunk; p1, p2 and length are u8
ApduCommand(packet_idx, packet_count, data) ==
    [cla |-> CLA, ins |-> INS_SIGN_ED25519,
     p1 |-> (packet_idx + 1) % 256, p2 |-> packet_count % 256,
     length |-> Len(data) % 256, data |-> data]

\* the answers a device may give to one packet
ApduAnswers ==
    [retcode : {NoError, CommandNotAllowed},
     data : {<<>>, [i \in 1..10 |-> i], [i \in 1..64 |-> 2 * i],
             [i \in 1..72 |-> 3 * i]}]

\* an ending that accepts any payload of at least 64 bytes
sign_result_truncating(response) ==
    IF Len(response.data) = 0 /\ response.retcode = NoError
    THEN Result("err", "NoSignature", <<>>)
    ELSE IF Len(response.data) < 64
    THEN Result("err", "InvalidSignature", <<>>)
    ELSE Result("ok", "", SubSeq(response.data, 1, 64))

\* the end of CosmosValidatorApp::sign, after the last exchange
sign_result(response) ==
    IF Len(response.data) = 0 /\ response.retcode = NoError
    THEN Result("err", "NoSignature", <<>>)
    ELSE IF Len(response.data) # 64
    THEN Result("err", "InvalidSignature", <<>>)
    ELSE Result("ok", "", SubSeq(response.data, 1, 64))

\* lengths around the chunking boundaries: empty, one packet, exactly one
\* chunk, one byte over, two and three chunks, 255 packets, 256 packets
MessageLengths == {0, 1, 249, 250, 251, 500, 501, 63750, 63751}

CvInit ==
    /\ cv_len \in MessageLengths
    /\ cv_pc = "idle"
    /\ cv_idx = 0
    /\ cv_sent = <<>>
    /\ cv_response = [retcode |-> 0, data |-> <<>>]
    /\ cv_ret = NoResult

CvIdle ==
    /\ cv_len = 0
    /\ cv_pc = "idle"
    /\ cv_idx = 0
    /\ cv_sent = <<>>
    /\ cv_response = [retcode |-> 0, data |-> <<>>]
    /\ cv_ret = NoResult

\* CosmosValidatorApp::sign up to the loop: the two size checks
CvStart ==
    /\ cv_pc = "idle"
    /\ IF chunks_len(cv_len) > 255
       THEN cv_pc' = "done" /\ cv_ret' = Result("err", "InvalidMessageSize", <<>>)
       ELSE IF chunks_len(cv_len) = 0
       THEN cv_pc' = "done" /\ cv_ret' = Result("err", "InvalidEmptyMessage", <<>>)
       ELSE cv_pc' = "loop" /\ UNCHANGED cv_ret
    /\ UNCHANGED <<cv_len, cv_idx, cv_sent, cv_response>>
    /\ UNCHANGED <<aminoVars, amountVars, grpcVars, ksVars, hidVars, addrVars, jsonVars, callVars>>

\* a loop that sends the packet again after a transport error
CvSendPacket_retrying ==
    /\ cv_pc = "loop"
    /\ cv_idx < chunks_len(cv_len)
    /\ Len(cv_sent) < 256
    /\ cv_sent' = Append(cv_sent,
                         ApduCommand(cv_idx, chunks_len(cv_len), chunk(cv_len, cv_idx)))
    /\ \/ UNCHANGED <<cv_pc, cv_ret, cv_idx, cv_response>>
       \/ \E response \in ApduAnswers :
             /\ cv_response' = response
             /\ cv_idx' = cv_idx + 1
             /\ IF cv_idx + 1 = chunks_len(cv_len)
                THEN cv_pc' = "done" /\ cv_ret' = sign_result(response)
                ELSE UNCHANGED <<cv_pc, cv_ret>>
    /\ UNCHANGED cv_len
    /\ UNCHANGED <<aminoVars, amountVars, grpcVars, ksVars, hidVars, addrVars, jsonVars, callVars>>

\* one iteration of the loop: the packet is exchanged; a transport error ends
\* sign, and after the last packet the final response decides the result
CvSendPacket ==
    /\ cv_pc = "loop"
    /\ cv_idx < chunks_len(cv_len)
    /\ cv_sent' = Append(cv_sent,
                         ApduCommand(cv_idx, chunks_len(cv_len), chunk(cv_len, cv_idx)))
    /\ \/ /\ cv_pc' = "done"
          /\ cv_ret' = Result("err", "Ledger", <<>>)
          /\ UNCHANGED <<cv_idx, cv_response>>
       \/ \E response \in ApduAnswers :
             /\ cv_response' = response
             /\ cv_idx' = cv_idx + 1
             /\ IF cv_idx + 1 = chunks_len(cv_len)
                THEN cv_pc' = "done" /\ cv_ret' = sign_result(response)
                ELSE UNCHANGED <<cv_pc, cv_ret>>
    /\ UNCHANGED cv_len
    /\ UNCHANGED <<aminoVars, amountVars, grpcVars, ksVars, hidVars, addrVars, jsonVars, callVars>>

----------------------------------------------------------------------------
(* Address and its bech32 text form (src/src/types/address.rs) *)

\* the chain prefix the address test expects ("cro1...")
ACCOUNT_ADDRESS_PREFIX == <<"c", "r", "o">>
HASH_SIZE_ADDRESS == 32

Bech32Charset ==
    <<"q", "p", "z", "r", "y", "9", "x", "8", "g", "f", "2", "t", "v", "d", "w", "0",
      "s", "3", "j", "n", "5", "4", "k", "h", "c", "e", "6", "m", "u", "a", "7", "l">>

\* bitwise exclusive or of two naturals
RECURSIVE Xor(_, _)
Xor(a, b) ==
    IF a = 0 THEN b
    ELSE IF b = 0 THEN a
    ELSE ((a + b) % 2) + 2 * Xor(a \div 2, b \div 2)

\* the bech32 checksum polynomial: chk taken through values[lo..hi], the
\* range halved so that long inputs do not nest deeply
RECURSIVE Bech32Polymod(_, _, _, _)
Bech32Polymod(values, lo, hi, chk) ==
    LET gen == <<996825010, 642813549, 513874426, 1027748829, 705979059>>
        top == chk \div (2 ^ 25)
        Mix(k, c) == IF (top \div (2 ^ (k - 1))) % 2 = 1 THEN Xor(c, gen[k]) ELSE c
        mid == (lo + hi) \div 2
    IN  IF lo > hi THEN chk
        ELSE IF lo = hi
        THEN Mix(5, Mix(4, Mix(3, Mix(2, Mix(1, Xor((chk % (2 ^ 25)) * 32, values[lo]))))))
        ELSE CHOOSE r \in {Bech32Polymod(values, mid + 1, hi, c) :
                              c \in {Bech32Polymod(values, lo, mid, chk)}} : TRUE

\* the human-readable part as the checksum sees it
Bech32HrpExpand(hrp) ==
    [i \in 1..Len(hrp) |-> CharCode(hrp[i]) \div 32] \o <<0>>
        \o [i \in 1..Len(hrp) |-> CharCode(hrp[i]) % 32]

\* bech32::encode: the prefix, the separator, the data and six checksum symbols
bech32_encode(hrp, data) ==
    LET v   == Bech32HrpExpand(hrp) \o data \o <<0, 0, 0, 0, 0, 0>>
        pm  == Xor(Bech32Polymod(v, 1, Len(v), 1), 1)
        sum == [i \in 1..6 |-> (pm \div (32 ^ (6 - i))) % 32]
        all == data \o sum
    IN  hrp \o <<"1">> \o [i \in 1..Len(all) |-> Bech32Charset[all[i] + 1]]

\* bech32::decode: the lower-cased prefix and the data without its checksum
bech32_decode(s) ==
    LET seps    == {i \in 1..Len(s) : s[i] = "1"}
        sep     == CHOOSE i \in seps : \A j \in seps : j <= i
        raw_hrp == SubSeq(s, 1, sep - 1)
        raw     == SubSeq(s, sep + 1, Len(s))
        IsUpper(c) == CharCode(c) >= 65 /\ CharCode(c) <= 90
        IsLower(c) == CharCode(c) >= 97 /\ CharCode(c) <= 122
        Known(c) == \E k \in 1..32 : Bech32Charset[k] = LowerChar(c)
        Value(c) == (CHOOSE k \in 1..32 : Bech32Charset[k] = LowerChar(c)) - 1
        hrp     == [i \in 1..Len(raw_hrp) |-> LowerChar(raw_hrp[i])]
        data    == [i \in 1..Len(raw) |-> Value(raw[i])]
    IN  IF Len(s) < 8 \/ Len(s) > 90 THEN Result("err", "InvalidLength", <<>>)
        ELSE IF seps = {} THEN Result("err", "MissingSeparator", <<>>)
        ELSE IF Len(raw_hrp) < 1 \/ Len(raw) < 6 THEN Result("err", "InvalidLength", <<>>)
        ELSE IF \E i \in 1..Len(raw) : ~Known(raw[i]) THEN Result("err", "InvalidChar", <<>>)
        ELSE IF (\E i \in 1..Len(s) : IsUpper(s[i])) /\ (\E i \in 1..Len(s) : IsLower(s[i]))
        THEN Result("err", "MixedCase", <<>>)
        ELSE IF Bech32Polymod(Bech32HrpExpand(hrp) \o data, 1, 2 * Len(hrp) + 1 + Len(data), 1) # 1
        THEN Result("err", "InvalidChecksum", <<>>)
        ELSE Result("ok", "", [hrp |-> hrp, data |-> SubSeq(data, 1, Len(data) - 6)])

\* Address::to_cro
to_cro(a) ==
    IF \E i \in 1..Len(a) : a[i] > 31 THEN ErrorOf("Bech32Error", "InvalidData")
    ELSE Result("ok", "", bech32_encode(ACCOUNT_ADDRESS_PREFIX, a))

\* Address::from_cro; copy_from_slice panics when the lengths differ
from_cro(encoded_addr) ==
    IF \/ Len(encoded_addr) < Len(ACCOUNT_ADDRESS_PREFIX)
       \/ SubSeq(encoded_addr, 1, Len(ACCOUNT_ADDRESS_PREFIX)) # ACCOUNT_ADDRESS_PREFIX
    THEN Result("err", "InvalidPrefix", <<>>)
    ELSE LET decoded == bech32_decode(encoded_addr)
         IN  IF decoded.kind = "err" THEN ErrorOf("Bech32Error", decoded.err)
             ELSE IF Len(decoded.value.data) # HASH_SIZE_ADDRESS
             THEN Result("panic", "copy_from_slice", <<>>)
             ELSE Result("ok", "", decoded.value.data)

\* Address::from_slice: the length test looks at the local array, which always
\* has HASH_SIZE_ADDRESS elements, so only copy_from_slice looks at raw
from_slice(raw) ==
    IF HASH_SIZE_ADDRESS # HASH_SIZE_ADDRESS THEN Result("err", "ConvertError", <<>>)
    ELSE IF Len(raw) # HASH_SIZE_ADDRESS THEN Result("panic", "copy_from_slice", <<>>)
    ELSE Result("ok", "", raw)

\* the five-bit groups of the hash in test_address, and other payloads
HashGroups ==
    <<28, 5, 0, 7, 27, 9, 1, 2, 23, 4, 12, 10, 16, 21, 17, 18,
      16, 30, 31, 20, 0, 16, 25, 29, 1, 6, 20, 22, 11, 17, 8, 10>>

AddressPayloads ==
    {HashGroups, [i \in 1..32 |-> 0], [i \in 1..32 |-> 31],
     SubSeq(HashGroups, 1, 31), HashGroups \o <<7>>, <<>>}

AddressSlices ==
    AddressPayloads
        \cup {[i \in 1..32 |-> 225], [HashGroups EXCEPT ![32] = 32],
              <<225, 64, 125, 164, 34, 185, 24, 168, 86, 50,
                135, 191, 64, 67, 61, 9, 169, 101, 197, 10>>}

\* well-formed strings under several prefixes, and damaged ones
AddressStrings ==
    LET good == {bech32_encode(hrp, p) :
                    hrp \in {ACCOUNT_ADDRESS_PREFIX, <<"c", "r", "o", "o">>, <<"c", "r">>,
                             <<"x", "r", "o">>, <<"c", "r", "o", "1", "x">>},
                    p \in AddressPayloads}
    IN  good
          \cup {[s EXCEPT ![Len(s)] = c] : s \in good, c \in {"q", "b"}}
          \cup {[s EXCEPT ![Len(s)] = "Q"] : s \in good}
          \cup {[i \in 1..Len(s) |-> IF CharCode(s[i]) >= 97 /\ CharCode(s[i]) <= 122
                                     THEN CHOOSE d \in DOMAIN AsciiTable :
                                              AsciiTable[d] = CharCode(s[i]) - 32
                                     ELSE s[i]] : s \in good}
          \cup {<<>>, ACCOUNT_ADDRESS_PREFIX, <<"c", "r", "o", "q", "q", "q", "q", "q", "q">>}

AddrInit ==
    /\ ad_in \in [kind : {"slice"}, arg : AddressSlices]
                    \cup [kind : {"string"}, arg : AddressStrings]
    /\ ad_trace = <<>>

AddrIdle ==
    /\ ad_in = [kind |-> "none", arg |-> <<>>]
    /\ ad_trace = <<>>

Called(op, r) == [op |-> op, r |-> r]

\* Address::from_slice on the given slice
AddrFromSlice ==
    /\ ad_in.kind = "slice"
    /\ ad_trace = <<>>
    /\ ad_trace' = <<Called("from_slice", from_slice(ad_in.arg))>>
    /\ UNCHANGED <<ad_in, aminoVars, amountVars, grpcVars, ksVars, hidVars, cvVars, jsonVars, callVars>>

\* Address::to_cro on the Address the first call returned
AddrToCro ==
    /\ Len(ad_trace) = 1
    /\ ad_trace[1].r.kind = "ok"
    /\ ad_trace' = Append(ad_trace, Called("to_cro", to_cro(ad_trace[1].r.value)))
    /\ UNCHANGED <<ad_in, aminoVars, amountVars, grpcVars, ksVars, hidVars, cvVars, jsonVars, callVars>>

\* Address::from_cro on the given string, or on the string to_cro returned
AddrFromCro ==
    /\ \/ /\ ad_in.kind = "string"
          /\ ad_trace = <<>>
          /\ ad_trace' = <<Called("from_cro", from_cro(ad_in.arg))>>
       \/ /\ ad_in.kind = "slice"
          /\ Len(ad_trace) = 2
          /\ ad_trace[2].r.kind = "ok"
          /\ ad_trace' = Append(ad_trace, Called("from_cro", from_cro(ad_trace[2].r.value)))
    /\ UNCHANGED <<ad_in, aminoVars, amountVars, grpcVars, ksVars, hidVars, cvVars, jsonVars, callVars>>


----------------------------------------------------------------------------
(* KeyService for LedgerServiceHID: public_key and address *)

\* String::from_utf8 on ASCII bytes
FromAscii(b) == [i \in DOMAIN b |-> CHOOSE c \in DOMAIN AsciiTable : AsciiTable[c] = b[i]]

\* stand-in for secp256k1::PublicKey::from_slice: a compressed key is 33
\* bytes that begin with 2 or 3
InnerPublicKey_from_slice(raw) ==
    IF Len(raw) = PK_LEN /\ raw[1] \in {2, 3} THEN Result("ok", "", raw)
    ELSE Result("err", "InvalidPublicKey", <<>>)

\* stdtx::Address::from_bech32: the five-bit groups regrouped into the 20
\* bytes of an account address
Address_from_bech32(s) ==
    LET decoded == bech32_decode(s)
        groups  == decoded.value.data
        GroupBit(p) == (groups[(p \div 5) + 1] \div (2 ^ (4 - (p % 5)))) % 2
        RegroupedByte(k) == GroupBit(8 * k) * 128 + GroupBit(8 * k + 1) * 64 + GroupBit(8 * k + 2) * 32
                     + GroupBit(8 * k + 3) * 16 + GroupBit(8 * k + 4) * 8 + GroupBit(8 * k + 5) * 4
                     + GroupBit(8 * k + 6) * 2 + GroupBit(8 * k + 7)
    IN  IF decoded.kind = "err" THEN Result("err", "InvalidBech32", <<>>)
        ELSE IF Len(groups) # 32 THEN Result("err", "InvalidLength", <<>>)
        ELSE Result("ok", "", [hrp |-> decoded.value.hrp, bytes |-> [k \in 1..20 |-> RegroupedByte(k - 1)]])

\* LedgerServiceHID::public_key
LedgerServiceHID_public_key(pubkey_address) ==
    LET pubkey == InnerPublicKey_from_slice(pubkey_address.public_key)
    IN  IF pubkey.kind = "err" THEN ErrorOf("InputError", "invalid public key")
        ELSE Result("ok", "", pubkey.value)

\* LedgerServiceHID::address
LedgerServiceHID_address(pubkey_address) ==
    LET parsed == Address_from_bech32(FromAscii(pubkey_address.address))
    IN  IF parsed.kind = "err" THEN ErrorOf("InputError", "invalid address")
        ELSE Result("ok", "", parsed.value.bytes)

\* a public_key that asks the device again
HidPublicKey_asking_device ==
    /\ hid_pc = "ready"
    /\ Len(dev_log) < MaxCommands
    /\ dev_log' = Append(dev_log, get_pubkey_address_command(Lit_cro, HdPathBytes, FALSE))
    /\ hid_ret' = LedgerServiceHID_public_key(hid_cache)
    /\ hid_call' = "public_key"
    /\ UNCHANGED <<dev_app, hid_in, hid_pc, hid_cache>>
    /\ UNCHANGED <<aminoVars, amountVars, grpcVars, ksVars, cvVars, addrVars, jsonVars, callVars>>

\* KeyService::public_key on the constructed LedgerServiceHID
HidPublicKey ==
    /\ hid_pc = "ready"
    /\ hid_ret' = LedgerServiceHID_public_key(hid_cache)
    /\ hid_call' = "public_key"
    /\ UNCHANGED <<dev_app, dev_log, hid_in, hid_pc, hid_cache>>
    /\ UNCHANGED <<aminoVars, amountVars, grpcVars, ksVars, cvVars, addrVars, jsonVars, callVars>>

\* KeyService::address on the constructed LedgerServiceHID
HidAddress ==
    /\ hid_pc = "ready"
    /\ hid_ret' = LedgerServiceHID_address(hid_cache)
    /\ hid_call' = "address"
    /\ UNCHANGED <<dev_app, dev_log, hid_in, hid_pc, hid_cache>>
    /\ UNCHANGED <<aminoVars, amountVars, grpcVars, ksVars, cvVars, addrVars, jsonVars, callVars>>

----------------------------------------------------------------------------
(* Mnemonic (src/src/hd_wallet/mnemonic.rs) *)

\* the word counts that have a MnemonicType
MnemonicTypes == {12, 15, 18, 21, 24}

\* bit p (from 0, most significant first) of a sequence of w-bit numbers
BitOf(numbers, w, p) == (numbers[(p \div w) + 1] \div (2 ^ (w - 1 - (p % w)))) % 2

\* the entropy a phrase of 11-bit word indices carries: 32 bits for every
\* three words
EntropyOf(words) ==
    [k \in 1..((Len(words) \div 3) * 4) |->
        BitOf(words, 11, 8 * (k - 1)) * 128 + BitOf(words, 11, 8 * (k - 1) + 1) * 64
          + BitOf(words, 11, 8 * (k - 1) + 2) * 32 + BitOf(words, 11, 8 * (k - 1) + 3) * 16
          + BitOf(words, 11, 8 * (k - 1) + 4) * 8 + BitOf(words, 11, 8 * (k - 1) + 5) * 4
          + BitOf(words, 11, 8 * (k - 1) + 6) * 2 + BitOf(words, 11, 8 * (k - 1) + 7)]

\* bip39::Mnemonic::from_entropy: the entropy followed by the first bits of
\* its hash, cut into 11-bit word indices
PhraseOf(entropy) ==
    LET bits == entropy \o <<sha256(entropy)[1]>>
    IN  [i \in 1..((Len(entropy) \div 4) * 3) |->
            BitOf(bits, 8, 11 * (i - 1)) * 1024 + BitOf(bits, 8, 11 * (i - 1) + 1) * 512
              + BitOf(bits, 8, 11 * (i - 1) + 2) * 256 + BitOf(bits, 8, 11 * (i - 1) + 3) * 128
              + BitOf(bits, 8, 11 * (i - 1) + 4) * 64 + BitOf(bits, 8, 11 * (i - 1) + 5) * 32
              + BitOf(bits, 8, 11 * (i - 1) + 6) * 16 + BitOf(bits, 8, 11 * (i - 1) + 7) * 8
              + BitOf(bits, 8, 11 * (i - 1) + 8) * 4 + BitOf(bits, 8, 11 * (i - 1) + 9) * 2
              + BitOf(bits, 8, 11 * (i - 1) + 10)]

\* bip39::Mnemonic::from_phrase: every word is in the word list (a word
\* that is not has the index -1), the length has a MnemonicType, and the
\* last bits are the first bits of the hash of the entropy
from_phrase(words) ==
    LET cs       == Len(words) \div 3
        actual   == words[Len(words)] % (2 ^ cs)
        expected == sha256(EntropyOf(words))[1] \div (2 ^ (8 - cs))
    IN  IF \E i \in DOMAIN words : words[i] < 0 THEN Result("err", "InvalidWord", <<>>)
        ELSE IF Len(words) \notin MnemonicTypes THEN Result("err", "InvalidWordLength", <<>>)
        ELSE IF actual # expected THEN Result("err", "InvalidChecksum", <<>>)
        ELSE Result("ok", "", words)

\* the entropies the random generator is taken to produce
Entropies(word_count) ==
    {[i \in 1..((word_count \div 3) * 4) |-> 0], [i \in 1..((word_count \div 3) * 4) |-> 255],
     [i \in 1..((word_count \div 3) * 4) |-> (37 * i) % 256]}

\* Mnemonic::new: every Mnemonic the random generator can lead to
Mnemonic_new(word_count) ==
    IF word_count \in MnemonicTypes
    THEN {Result("ok", "", [inner_mnemonic |-> PhraseOf(e)]) : e \in Entropies(word_count)}
    ELSE {ErrorOf("InputError", "invalid words count")}

\* a from_str that takes the words as they are
Mnemonic_from_str_unchecked(words) == Result("ok", "", [inner_mnemonic |-> words])

\* Mnemonic::from_str
Mnemonic_from_str(words) ==
    LET mnemonic == from_phrase(words)
    IN  IF mnemonic.kind = "err" THEN ErrorOf("MnemonicError", mnemonic.err)
        ELSE Result("ok", "", [inner_mnemonic |-> mnemonic.value])

\* the word counts new is called with
WordCountInputs == 0..30 \cup {36, 48, 268, 65548, 2147483647}

\* the phrases from_str is called with: well-formed ones, and ones with a
\* changed, missing, added or unknown word
PhraseInputs ==
    LET good == UNION {{PhraseOf(e) : e \in Entropies(n)} : n \in MnemonicTypes}
    IN  good
          \cup {[p EXCEPT ![Len(p)] = (p[Len(p)] + 1) % 2048] : p \in good}
          \cup {[p EXCEPT ![1] = (p[1] + 1) % 2048] : p \in good}
          \cup {[p EXCEPT ![2] = -1] : p \in good}
          \cup {SubSeq(p, 1, Len(p) - 1) : p \in good}
          \cup {p \o <<0>> : p \in good}
          \cup {<<>>, <<0>>}

NoCall == [done |-> FALSE]

CallIdle ==
    /\ call_in = [fn |-> "none"]
    /\ call_out = NoCall

MnemonicInit ==
    /\ call_in \in [fn : {"Mnemonic::new"}, arg : WordCountInputs]
                      \cup [fn : {"Mnemonic::from_str"}, arg : PhraseInputs]
    /\ call_out = NoCall

MnemonicNew ==
    /\ call_in.fn = "Mnemonic::new"
    /\ ~call_out.done
    /\ \E r \in Mnemonic_new(call_in.arg) : call_out' = [done |-> TRUE, r |-> r]
    /\ UNCHANGED <<call_in, aminoVars, amountVars, grpcVars, ksVars, hidVars, cvVars, addrVars,
                   jsonVars>>

MnemonicFromStr ==
    /\ call_in.fn = "Mnemonic::from_str"
    /\ ~call_out.done
    /\ call_out' = [done |-> TRUE, r |-> Mnemonic_from_str(call_in.arg)]
    /\ UNCHANGED <<call_in, aminoVars, amountVars, grpcVars, ksVars, hidVars, cvVars, addrVars,
                   jsonVars>>

----------------------------------------------------------------------------
(* SignDoc::encode on its own (src/src/types/signature.rs) *)

\* the text of a value with its members in the order they are held
RECURSIVE UnsortedText(_)
UnsortedText(v) ==
    IF v.t = "string" THEN QuotedString(v.s)
    ELSE IF v.t = "number" THEN U64ToString(v.n)
    ELSE IF v.t = "array"
    THEN <<"[">> \o Concat([i \in DOMAIN v.a |->
                      UnsortedText(v.a[i]) \o (IF i < Len(v.a) THEN <<",">> ELSE <<>>)])
         \o <<"]">>
    ELSE <<"{">> \o Concat([i \in DOMAIN v.m |->
                      QuotedString(v.m[i][1]) \o <<":">> \o UnsortedText(v.m[i][2])
                      \o (IF i < Len(v.m) THEN <<",">> ELSE <<>>)])
         \o <<"}">>

\* an encoding that writes the members as they come
SignDoc_encode_unsorted(value) == AsBytes(RemoveChar(RemoveChar(UnsortedText(value), "\n"), " "))

\* SignDoc::encode after serde_json::to_value:
\*   sorted_json::to_json(&value).replace("\n", "").replace(" ", "").into_bytes()
SignDoc_encode(value) == AsBytes(RemoveChar(RemoveChar(to_json(value), "\n"), " "))

U64_MAX == [i \in 1..8 |-> 255]

\* the same value with the members of every object in another order, or
\* with the elements of every array in another order
RECURSIVE Reordered(_, _)
Reordered(v, order) ==
    LET Rev(q) == [i \in DOMAIN q |-> q[Len(q) + 1 - i]]
        Rot(q) == IF Len(q) = 0 THEN q ELSE Tail(q) \o <<Head(q)>>
    IN  IF v.t = "array"
        THEN LET a == [i \in DOMAIN v.a |-> Reordered(v.a[i], order)]
             IN  JArr(IF order = "elements_reversed" THEN Rev(a) ELSE a)
        ELSE IF v.t = "object"
        THEN LET m == [i \in DOMAIN v.m |-> <<v.m[i][1], Reordered(v.m[i][2], order)>>]
             IN  JObj(IF order = "reversed" THEN Rev(m)
                      ELSE IF order = "rotated" THEN Rot(m)
                      ELSE m)
        ELSE v

Orders == {"declared", "reversed", "rotated", "elements_reversed"}

\* the sign-documents that are encoded
SignDocs ==
    LET one == Transfer_new(SignerAddress, <<"c", "r", "o", "1", "s", "2", "g">>,
                            [denom |-> "basecro", amount |-> U64(0)])
        max == Transfer_new(SignerAddress, <<"c", "r", "o", "1", "s", "2", "g">>,
                            [denom |-> "basecro", amount |-> U64_MAX])
    IN  [account_number : {U64(0), U64_MAX},
         sequence : {U64(0), U64(4), U64_MAX},
         chain_id : {<<"t", "e", "s", "t">>},
         memo : {<<>>},
         fee : {[gas |-> U64(0), amount |-> <<[denom |-> "basecro", amount |-> U64_MAX]>>],
                [gas |-> U64_MAX, amount |-> <<[denom |-> "basecro", amount |-> U64(0)]>>]},
         msgs : {<<>>, <<one, max>>, <<max, max>>}]

JsonInit ==
    /\ \E doc \in SignDocs, order \in Orders :
          js_in = [doc |-> doc, order |-> order,
                   a |-> SignMsgJson(doc),
                   b |-> Reordered(SignMsgJson(doc), order)]
    /\ js_out = [done |-> FALSE]

JsonIdle ==
    /\ js_in = [order |-> "none"]
    /\ js_out = [done |-> FALSE]

\* SignDoc::encode on both values
JsonEncode ==
    /\ ~js_out.done
    /\ js_out' = [done |-> TRUE, a |-> SignDoc_encode(js_in.a), b |-> SignDoc_encode(js_in.b)]
    /\ UNCHANGED <<js_in, aminoVars, amountVars, grpcVars, ksVars, hidVars, cvVars, addrVars, callVars>>

----------------------------------------------------------------------------
(* CosmosValidatorApp::version and to_bip32array (src/src/utils/ledger_crypto.rs) *)

MaxResponseLen == 5
MaxPathLen     == 12

\* a u32 path component: the 31-bit index and the hardened bit 0x80000000
U32(index, hardened) == [index |-> index, hardened |-> hardened]

\* a writer that puts the most significant byte first
write_u32_BigEndian(v) ==
    <<((v.index \div 16777216) % 128) + (IF v.hardened THEN 128 ELSE 0),
      (v.index \div 65536) % 256, (v.index \div 256) % 256, v.index % 256>>

\* WriteBytesExt::write_u32::<LittleEndian>: the four bytes it appends
write_u32_LittleEndian(v) ==
    <<v.index % 256, (v.index \div 256) % 256, (v.index \div 65536) % 256,
      ((v.index \div 16777216) % 128) + (IF v.hardened THEN 128 ELSE 0)>>

\* to_bip32array
to_bip32array(path) ==
    IF Len(path) > 10 THEN Result("err", "InvalidDerivationPath", <<>>)
    ELSE Result("ok", "",
            <<Len(path) % 256>>
                \o [k \in 1..(4 * Len(path)) |->
                        write_u32_LittleEndian(path[((k - 1) \div 4) + 1])[((k - 1) % 4) + 1]])

\* CosmosValidatorApp::version.  exchange_ok is the outcome of app.exchange;
\* indexing response.data past its end panics.
CosmosValidatorApp_version(exchange_ok, response) ==
    IF ~exchange_ok THEN Result("err", "Ledger", <<>>)
    ELSE IF response.retcode # NoError THEN Result("err", "InvalidVersion", <<>>)
    ELSE IF Len(response.data) < 4 THEN Result("panic", "index out of bounds", <<>>)
    ELSE Result("ok", "",
            [mode |-> response.data[1], major |-> response.data[2],
             minor |-> response.data[3], patch |-> response.data[4]])

\* the responses the device may give to get-version
VersionResponses ==
    [retcode : {NoError, CommandNotAllowed, 0},
     data : UNION {[1..n -> {0, 2, 255}] : n \in 0..MaxResponseLen}]

PathComponents ==
    <<U32(0, FALSE), U32(1, FALSE), U32(12345, FALSE), U32(44, TRUE),
      U32(2147483647, TRUE), U32(16909060, FALSE)>>

\* the paths to_bip32array is called with: those of the derivation_path test
\* and paths of every length up to MaxPathLen
PathInputs ==
    {<<U32(1, FALSE)>>,
     <<U32(1, FALSE), U32(2, FALSE)>>,
     <<U32(1, FALSE), U32(2, FALSE), U32(12345, FALSE)>>,
     <<U32(44, FALSE), U32(118, FALSE), U32(0, FALSE), U32(0, FALSE), U32(0, FALSE)>>,
     <<U32(44, TRUE), U32(118, TRUE), U32(0, TRUE), U32(0, TRUE), U32(0, TRUE)>>}
        \cup {[i \in 1..n |-> PathComponents[((i + k) % Len(PathComponents)) + 1]] :
                n \in 0..MaxPathLen, k \in 1..Len(PathComponents)}

CryptoInit ==
    /\ call_in \in [fn : {"CosmosValidatorApp::version"}, exchange_ok : BOOLEAN,
                    response : VersionResponses]
                      \cup [fn : {"to_bip32array"}, arg : PathInputs]
    /\ call_out = NoCall

CvVersion ==
    /\ call_in.fn = "CosmosValidatorApp::version"
    /\ ~call_out.done
    /\ call_out' = [done |-> TRUE,
                    r |-> CosmosValidatorApp_version(call_in.exchange_ok, call_in.response)]
    /\ UNCHANGED <<call_in, aminoVars, amountVars, grpcVars, ksVars, hidVars, cvVars, addrVars,
                   jsonVars>>

ToBip32Array ==
    /\ call_in.fn = "to_bip32array"
    /\ ~call_out.done
    /\ call_out' = [done |-> TRUE, r |-> to_bip32array(call_in.arg)]
    /\ UNCHANGED <<call_in, aminoVars, amountVars, grpcVars, ksVars, hidVars, cvVars, addrVars,
                   jsonVars>>

----------------------------------------------------------------------------
(* Specifications *)

\* the amino TransferBuilder
Init == AminoInit /\ AmountIdle /\ GrpcIdle /\ SignerIdle /\ HidIdle /\ CvIdle /\ AddrIdle /\ JsonIdle /\ CallIdle
Next == AddTransfer \/ Build
Spec == Init /\ [][Next]_vars

\* Amount::new
InitAmount == AminoIdle /\ AmountInit /\ GrpcIdle /\ SignerIdle /\ HidIdle /\ CvIdle /\ AddrIdle /\ JsonIdle /\ CallIdle
NextAmount == AmountNew
SpecAmount == InitAmount /\ [][NextAmount]_vars

\* the protobuf TxBuilder
InitGrpc == AminoIdle /\ AmountIdle /\ GrpcInit /\ SignerIdle /\ HidIdle /\ CvIdle /\ AddrIdle /\ JsonIdle /\ CallIdle
NextGrpc == SetAccountNumber \/ SetSequence \/ AddMessage \/ GrpcBuild \/ GrpcRead
SpecGrpc == InitGrpc /\ [][NextGrpc]_vars

\* the software and the Ledger signer
InitSigner == AminoIdle /\ AmountIdle /\ GrpcIdle /\ SignerInit /\ HidIdle /\ CvIdle /\ AddrIdle /\ JsonIdle /\ CallIdle
NextSigner == SoftwareSign \/ LedgerSign
SpecSigner == InitSigner /\ [][NextSigner]_vars

\* LedgerServiceHID::new and the signer it returns
InitHid == AminoIdle /\ AmountIdle /\ GrpcIdle /\ SignerIdle /\ HidInit /\ CvIdle /\ AddrIdle /\ JsonIdle /\ CallIdle
NextHid ==
    \/ HidConnect \/ HidGetAppInfo \/ HidGetVersion \/ HidParsePath \/ HidGetAddress
    \/ HidSign \/ HidPublicKey \/ HidAddress
SpecHid == InitHid /\ [][NextHid]_vars

\* CosmosValidatorApp::sign
InitCv == AminoIdle /\ AmountIdle /\ GrpcIdle /\ SignerIdle /\ HidIdle /\ CvInit /\ AddrIdle /\ JsonIdle /\ CallIdle
NextCv == CvStart \/ CvSendPacket
SpecCv == InitCv /\ [][NextCv]_vars

\* Address: from_slice, to_cro and from_cro
InitAddr ==
    /\ AminoIdle /\ AmountIdle /\ GrpcIdle /\ SignerIdle /\ HidIdle /\ CvIdle
    /\ AddrInit /\ JsonIdle /\ CallIdle
NextAddr == AddrFromSlice \/ AddrToCro \/ AddrFromCro
SpecAddr == InitAddr /\ [][NextAddr]_vars

\* SignDoc::encode
InitJson ==
    /\ AminoIdle /\ AmountIdle /\ GrpcIdle /\ SignerIdle /\ HidIdle /\ CvIdle /\ AddrIdle
    /\ JsonInit /\ CallIdle
NextJson == JsonEncode
SpecJson == InitJson /\ [][NextJson]_vars

\* Mnemonic::new and Mnemonic::from_str
InitMnemonic ==
    /\ AminoIdle /\ AmountIdle /\ GrpcIdle /\ SignerIdle /\ HidIdle /\ CvIdle /\ AddrIdle
    /\ JsonIdle /\ MnemonicInit
NextMnemonic == MnemonicNew \/ MnemonicFromStr
SpecMnemonic == InitMnemonic /\ [][NextMnemonic]_vars

\* CosmosValidatorApp::version and to_bip32array
InitCrypto ==
    /\ AminoIdle /\ AmountIdle /\ GrpcIdle /\ SignerIdle /\ HidIdle /\ CvIdle /\ AddrIdle
    /\ JsonIdle /\ CryptoInit
NextCrypto == CvVersion \/ ToBip32Array
SpecCrypto == InitCrypto /\ [][NextCrypto]_vars

\* the device operations of both Ledger applications
InitLedger ==
    /\ AminoIdle /\ AmountIdle /\ GrpcIdle /\ SignerIdle /\ AddrIdle /\ JsonIdle /\ CallIdle
    /\ \/ HidInit /\ CvIdle
       \/ HidIdle /\ CvInit
NextLedger == NextHid \/ NextCv
SpecLedger == InitLedger /\ [][NextLedger]_vars

\* a transaction builder of either kind: the amino TransferBuilder or the
\* protobuf TxBuilder, each used only once it has been constructed
InitBuilders ==
    /\ AmountIdle /\ SignerIdle /\ HidIdle /\ CvIdle /\ AddrIdle /\ JsonIdle /\ CallIdle
    /\ \/ AminoInit /\ GrpcIdle
       \/ AminoIdle /\ GrpcInit
NextBuilders ==
    \/ amino_ret.op # "none" /\ Next
    \/ g_ret.op # "none" /\ NextGrpc
SpecBuilders == InitBuilders /\ [][NextBuilders]_vars

----------------------------------------------------------------------------
(* Properties *)

\* s contains pat as a contiguous run of characters
Contains(s, pat) ==
    \E k \in 0..(Len(s) - Len(pat)) : \A j \in 1..Len(pat) : s[k + j] = pat[j]

LastBuildOk == amino_ret.op = "build" /\ amino_ret.kind = "ok"

\* C1: every Transaction returned by a successful amino build carries exactly
\* one signature in its signature list.
C1_OneSignaturePerTransaction ==
    LastBuildOk => Len(amino_ret.tx.tx.signatures) = 1

\* the sign bytes of the document a build has to sign: its account_number and
\* sequence, the builder's configuration and the messages added so far
ExpectedSignBytes(account_number, sequence, msgs) ==
    AsBytes(sign_str([account_number |-> account_number, sequence |-> sequence,
                      chain_id |-> chain_id, memo |-> memo,
                      fee |-> get_fee(gas, fee), msgs |-> msgs]))

C2_Entries ==
    /\ Len(signatures) = Len(build_log)
    /\ \A i \in DOMAIN signatures :
          /\ signatures[i].account_number = build_log[i].account_number
          /\ signatures[i].sequence = build_log[i].sequence

C2_Step ==
    /\ \A i \in DOMAIN signatures : i \in DOMAIN signatures' /\ signatures'[i] = signatures[i]
    /\ Len(signatures') <= Len(signatures) + 1
    /\ (amino_ret'.op = "build" /\ amino_ret'.kind = "ok")
          => /\ Len(signatures') = Len(signatures) + 1
             /\ Len(build_log') = Len(build_log) + 1
             /\ \A done \in {build_log'[Len(build_log')]} :
                   /\ done.msgs = transfers
                   /\ signatures'[Len(signatures')].signature =
                         KeyService_sign(ExpectedSignBytes(done.account_number,
                                                           done.sequence, done.msgs))

\* C2: each successful amino build appends exactly one signature and never
\* replaces or removes an earlier one; after n successful builds the list has
\* n entries, entry i carries the account_number and sequence of the i-th
\* build and signs a document holding the messages added before that build.
C2_BuildAppendsOneSignature == [](C2_Entries) /\ [][C2_Step]_vars

\* two successful builds, the second one after a further message was added
C2_Witness ==
    /\ Len(signatures) = 2
    /\ Len(build_log[1].msgs) < Len(build_log[2].msgs)
    /\ signatures[1].sequence # signatures[2].sequence

\* C3: an amino build in which the signer's sign fails, or public_key fails
\* after signing succeeded, returns an error and no Transaction and leaves
\* the signature list and the message list as they were.
C3_FailedBuildChangesNothing ==
    [][(amino_ret'.op = "build" /\ amino_ret'.kind = "err")
          => /\ amino_ret'.tx = NoTx
             /\ signatures' = signatures
             /\ transfers' = transfers]_vars

\* public_key failed after a successful sign, on a builder that already holds
\* a message and a signature
C3_Witness ==
    /\ amino_ret.op = "build" /\ amino_ret.kind = "err" /\ amino_ret.err = "public_key"
    /\ Len(signatures) = 1
    /\ Len(transfers) = 1

\* C4: canonicalization removes only insignificant whitespace, so the memo in
\* the signed bytes is, character for character, the memo of the returned
\* transaction.
C4_SignedMemoIsTransactionMemo ==
    LastBuildOk =>
        Contains(build_log[Len(build_log)].signed,
                 QuotedString(SignMsg_keys.memo) \o <<":">> \o QuotedString(amino_ret.tx.tx.memo)
                     \o <<",">>)

\* C5: Amount::new(n, Cro) returns normally and holds the exact product
\* n * 100_000_000, and every Amount is in Basecro.
C5_AmountNormalization ==
    am_out # NoOutcome =>
        /\ ~am_out.panic
        /\ am_out.value.denom = "basecro"
        /\ am_in.denom = "cro" =>
              am_out.value.amount \o U64(0) = MulWide(am_in.amount, U64(CRO))
        /\ am_in.denom = "basecro" => am_out.value.amount = am_in.amount

\* C6: in a successful protobuf build the body_bytes and auth_info_bytes of
\* the TxRaw are those of the SignDoc whose encoding went to the signer, and
\* the TxRaw carries exactly one signature, the base64-decoding of the
\* signer's answer.
C6_TxRawMatchesSignDoc ==
    (g_ret.op = "build" /\ g_ret.kind = "ok") =>
        /\ g_signed.asked
        /\ g_signed.bytes = EncodeSignDoc(g_signed.sign_doc)
        /\ g_ret.tx_raw.body_bytes = g_signed.sign_doc.body_bytes
        /\ g_ret.tx_raw.auth_info_bytes = g_signed.sign_doc.auth_info_bytes
        /\ Len(g_ret.tx_raw.signatures) = 1
        /\ Base64Encode(g_ret.tx_raw.signatures[1]) = g_signed.reply.text
        /\ g_ret.text = Base64Encode(EncodeTxRaw(g_ret.tx_raw))

\* a successful build of two messages with a non-zero sequence set
C6_Witness ==
    /\ g_ret.op = "build" /\ g_ret.kind = "ok"
    /\ Len(g_messages) = 2
    /\ g_sequence = U64(4)
    /\ g_account_number = U64(9)

\* C7: whichever signer produced it, the base64 string returned by sign
\* decodes to exactly 64 raw bytes.
C7_SignatureIs64Bytes ==
    ks_ret.r.kind = "ok" =>
        /\ Base64Decode(ks_ret.r.value).ok
        /\ Len(Base64Decode(ks_ret.r.value).bytes) = 64

AppMatches == to_lowercase(dev_app.app_name) = Lit_cryp /\ dev_app.major = 2

\* C8: LedgerServiceHID::new returns a signer only for an application named
\* "cryp" (ignoring case) with major version 2; on a mismatch it fails with
\* LedgerError and neither a get-address nor a sign command is ever sent.
C8_OnlyMatchingApplication ==
    /\ hid_pc \in {"path", "address", "ready"} => AppMatches
    /\ hid_ret.kind = "ok" => AppMatches
    /\ (\E i \in DOMAIN dev_log : dev_log[i].op \in {"get_address", "sign"}) => AppMatches
    /\ (~AppMatches /\ hid_pc = "failed") => hid_ret.err = "LedgerError"
    /\ ~AppMatches => hid_pc \in {"start", "app_info", "version", "failed"}

\* the application name matches but its major version does not: new() failed
\* after get-app-info and get-version
C8_Witness ==
    /\ hid_pc = "failed"
    /\ dev_app.app_name = <<"C", "R", "Y", "P">>
    /\ dev_app.major = 3
    /\ Len(dev_log) = 2

\* C9: once the device has answered a packet with a status other than 0x9000,
\* sign has ended with an error: no further packet is sent and no signature
\* is returned.
C9_BadStatusAborts ==
    (cv_idx >= 1 /\ cv_response.retcode # NoError) =>
        (cv_pc = "done" /\ cv_ret.kind = "err")

\* ceil(L / 250)
PacketsFor(L) == IF L % 250 = 0 THEN L \div 250 ELSE (L \div 250) + 1

\* C10: a message of L > 0 bytes goes out as ceil(L/250) packets in order,
\* packet i with p1 = i and p2 = the packet count, each carrying the next at
\* most 250 bytes of the message; an empty message yields InvalidEmptyMessage
\* and one of more than 255 packets InvalidMessageSize, with no packet sent.
C10_Chunking ==
    /\ Len(cv_sent) <= PacketsFor(cv_len)
    /\ \A i \in DOMAIN cv_sent :
          /\ cv_sent[i].p1 = i
          /\ cv_sent[i].p2 = PacketsFor(cv_len)
          /\ Len(cv_sent[i].data) = (IF i < PacketsFor(cv_len) THEN 250
                                     ELSE cv_len - 250 * (i - 1))
          /\ cv_sent[i].length = Len(cv_sent[i].data)
          /\ \A j \in DOMAIN cv_sent[i].data :
                cv_sent[i].data[j] = MessageByte(250 * (i - 1) + j)
    /\ cv_len = 0 =>
          /\ cv_sent = <<>>
          /\ cv_pc = "done" => cv_ret.err = "InvalidEmptyMessage"
    /\ PacketsFor(cv_len) > 255 =>
          /\ cv_sent = <<>>
          /\ cv_pc = "done" => cv_ret.err = "InvalidMessageSize"
    /\ (cv_pc = "done" /\ cv_len > 0 /\ PacketsFor(cv_len) <= 255 /\ cv_ret.err # "Ledger")
          => Len(cv_sent) = PacketsFor(cv_len)

\* a message of 251 bytes was signed in two packets
C10_Witness ==
    /\ cv_len = 251
    /\ cv_pc = "done"
    /\ cv_ret.kind = "ok"
    /\ Len(cv_sent) = 2
    /\ Len(cv_sent[2].data) = 1

\* CosmosValidatorApp::sign has exchanged its last packet and returned
CvFinished == cv_pc = "done" /\ cv_idx >= 1 /\ cv_idx = Len(cv_sent)

\* C11 (as claimed): after the last packet an empty payload with a success
\* status yields NoSignature, a non-empty payload shorter than the signature
\* length yields InvalidSignature, and every other final payload yields its
\* first signature-length bytes.
C11_FinalPayloadDecides ==
    CvFinished =>
        IF Len(cv_response.data) = 0 /\ cv_response.retcode = NoError
        THEN cv_ret.err = "NoSignature"
        ELSE IF Len(cv_response.data) > 0 /\ Len(cv_response.data) < 64
        THEN cv_ret.err = "InvalidSignature"
        ELSE cv_ret.kind = "ok" /\ cv_ret.value = SubSeq(cv_response.data, 1, 64)

\* C11 (amended): CosmosValidatorApp::sign returns the final payload only when
\* it is exactly 64 bytes long; an empty payload with a success status yields
\* NoSignature and every other length, longer ones included, InvalidSignature.
\* CryptoApp::sign returns the first 65 bytes of any final payload of at least
\* 65 bytes, NoSignature for an empty one with a success status and
\* InvalidSignature for the other shorter ones.  Only the final response counts.
C11_FinalPayloadDecidesPerApp ==
    /\ CvFinished =>
          IF Len(cv_response.data) = 0 /\ cv_response.retcode = NoError
          THEN cv_ret.kind = "err" /\ cv_ret.err = "NoSignature"
          ELSE IF Len(cv_response.data) # 64
          THEN cv_ret.kind = "err" /\ cv_ret.err = "InvalidSignature"
          ELSE cv_ret.kind = "ok" /\ cv_ret.value = cv_response.data
    /\ \A sent \in SendChunksResults(<<MessageByte(1)>>) :
          sent.kind = "ok" =>
             IF Len(sent.value.data) = 0 /\ sent.value.retcode = NoError
             THEN CryptoApp_sign(sent).err = "NoSignature"
             ELSE IF Len(sent.value.data) < 65
             THEN CryptoApp_sign(sent).err = "InvalidSignature"
             ELSE /\ CryptoApp_sign(sent).kind = "ok"
                  /\ CryptoApp_sign(sent).value = SubSeq(sent.value.data, 1, 65)

\* a two-packet signing whose final payload is longer than a signature
C11_Witness ==
    /\ CvFinished
    /\ Len(cv_sent) = 2
    /\ Len(cv_response.data) = 72
    /\ cv_ret.err = "InvalidSignature"

\* the get-address command was sent and its exchange did not fail
AddressAnswered ==
    /\ \E i \in DOMAIN dev_log : dev_log[i].op = "get_address"
    /\ ~(hid_pc = "failed" /\ hid_ret.detail = "get address failed")

AddressRejected(detail) ==
    /\ hid_pc = "failed"
    /\ hid_ret.kind = "err"
    /\ hid_ret.detail = detail
    /\ hid_cache = NoCache

\* C12: get_pubkey_address looks at the response in this order: a status other
\* than 0x9000 is the application error; else a payload under 33 bytes is
\* InvalidPK; else the first 33 bytes are the public key and the rest, which
\* must be UTF-8 (else Utf8), the address; an error yields no PubkeyAddress.
C12_AddressResponseOrder ==
    AddressAnswered =>
        IF dev_app.address.retcode # 36864 THEN AddressRejected("AppSpecific")
        ELSE IF Len(dev_app.address.data) < 33 THEN AddressRejected("InvalidPK")
        ELSE IF ~IsUtf8(SubSeq(dev_app.address.data, 34, Len(dev_app.address.data)))
        THEN AddressRejected("Utf8")
        ELSE /\ hid_pc = "ready"
             /\ hid_cache.public_key = SubSeq(dev_app.address.data, 1, 33)
             /\ hid_cache.address = SubSeq(dev_app.address.data, 34, Len(dev_app.address.data))

\* the device refused the command and sent no payload: the status is reported,
\* not the short payload
C12_Witness ==
    /\ AddressAnswered
    /\ dev_app.address.retcode # 36864
    /\ dev_app.address.data = <<>>
    /\ AddressRejected("AppSpecific")

ExchangeFailures == {"get app info failed", "get version failed", "get address failed"}

C13_SentOnce ==
    /\ \A i \in DOMAIN cv_sent : cv_sent[i].p1 = i
    /\ \A i, j \in DOMAIN dev_log :
          (i # j /\ dev_log[i].op = dev_log[j].op) => dev_log[i].op = "sign"
    /\ cv_ret.err = "Ledger" => (cv_pc = "done" /\ Len(cv_sent) = cv_idx + 1)
    /\ hid_ret.detail \in ExchangeFailures => hid_pc = "failed"

C13_Step ==
    /\ Len(cv_sent') <= Len(cv_sent) + 1
    /\ Len(dev_log') <= Len(dev_log) + 1
    /\ cv_pc = "done" => cv_sent' = cv_sent
    /\ hid_pc = "failed" => dev_log' = dev_log
    /\ (cv_ret' # cv_ret /\ cv_ret'.err = "Ledger") => cv_ret'.kind = "err"
    /\ (hid_ret' # hid_ret /\ hid_ret'.detail \in ExchangeFailures \cup {"Transport"})
          => hid_ret'.kind = "err"

\* C13: no exchange is retried: within one operation every command goes out at
\* most once, and a transport failure ends the operation with an error, after
\* which no further command is sent.
C13_NoRetry == [](C13_SentOnce) /\ [][C13_Step]_vars

\* the exchange of the second of three packets failed: the third is never sent
C13_Witness ==
    /\ cv_len = 501
    /\ cv_pc = "done"
    /\ cv_ret.err = "Ledger"
    /\ Len(cv_sent) = 2

\* what the text form of an address claims to be: the part before the last
\* separator, and whether the whole string is well-formed bech32
HasSeparator(s) == \E i \in 1..Len(s) : s[i] = "1"
HrpOf(s) == SubSeq(s, 1, (CHOOSE i \in 1..Len(s) : s[i] = "1" /\ \A j \in (i + 1)..Len(s) : s[j] # "1") - 1)
Parsed == ad_in.kind = "string" /\ Len(ad_trace) >= 1

\* C14: from_cro answers InvalidPrefix for every input whose bech32 prefix is
\* not exactly the chain prefix, prefixes that only begin with it included,
\* and Bech32Error for every input with the chain prefix that fails the
\* checksum or the decoding.
C14_PrefixIsExact ==
    Parsed =>
        LET s == ad_in.arg
            r == ad_trace[1].r
        IN  /\ (HasSeparator(s) /\ HrpOf(s) # ACCOUNT_ADDRESS_PREFIX)
                  => (r.kind = "err" /\ r.err = "InvalidPrefix")
            /\ (HasSeparator(s) /\ HrpOf(s) = ACCOUNT_ADDRESS_PREFIX
                  /\ bech32_decode(s).kind = "err")
                  => (r.kind = "err" /\ r.err = "Bech32Error")

\* C15: from_slice answers ConvertError for every slice whose length is not
\* 32, from_cro answers an error for every well-formed string with the chain
\* prefix whose payload is not 32 five-bit groups, and neither call crashes.
C15_WrongLengthIsAnError ==
    /\ \A i \in 1..Len(ad_trace) : ad_trace[i].r.kind # "panic"
    /\ (ad_in.kind = "slice" /\ Len(ad_trace) >= 1 /\ Len(ad_in.arg) # HASH_SIZE_ADDRESS)
          => (ad_trace[1].r.kind = "err" /\ ad_trace[1].r.err = "ConvertError")
    /\ (Parsed /\ HasSeparator(ad_in.arg) /\ HrpOf(ad_in.arg) = ACCOUNT_ADDRESS_PREFIX
          /\ bech32_decode(ad_in.arg).kind = "ok"
          /\ Len(bech32_decode(ad_in.arg).value.data) # HASH_SIZE_ADDRESS)
          => ad_trace[1].r.kind = "err"

\* C16: an Address of 32 five-bit groups survives to_cro followed by
\* from_cro, and a string from_cro accepts survives from_cro followed by
\* to_cro.
C16_RoundTrips ==
    /\ (ad_in.kind = "slice" /\ Len(ad_trace) = 3)
          => (ad_trace[3].r.kind = "ok" /\ ad_trace[3].r.value = ad_trace[1].r.value)
    /\ (ad_in.kind = "slice" /\ Len(ad_trace) = 2
          /\ \A i \in 1..Len(ad_in.arg) : ad_in.arg[i] < 32)
          => ad_trace[2].r.kind = "ok"
    /\ (ad_in.kind = "string" /\ Len(ad_trace) = 2)
          => (ad_trace[2].r.kind = "ok" /\ ad_trace[2].r.value = ad_in.arg)

\* the Basecro amount that is exactly n of the given denomination
ExactlyNormalized(a, n, denom) ==
    /\ a.denom = "basecro"
    /\ IF denom = "cro" THEN a.amount \o U64(0) = MulWide(n, U64(CRO)) ELSE a.amount = n

AddTransferStep == amino_ret'.op = "add_transfer" /\ aminoVars' # aminoVars

\* C17: add_transfer, when the signer's address() succeeds, appends one
\* cosmos-sdk/MsgSend at the end whose sender is the signer's address and
\* whose amount is the given amount in the base unit, and leaves the earlier
\* messages and the signatures alone; when address() fails it returns the
\* error and leaves the messages alone.
C17_Step ==
    AddTransferStep =>
        /\ signatures' = signatures
        /\ IF amino_ret'.kind = "err"
           THEN transfers' = transfers
           ELSE /\ amino_ret'.kind = "ok"
                /\ Len(transfers') = Len(transfers) + 1
                /\ SubSeq(transfers', 1, Len(transfers)) = transfers
                /\ \A added \in {transfers'[Len(transfers')]} :
                      /\ added.transfer_type = Lit_MsgSend
                      /\ added.value.from_address = SignerAddress
                      /\ Len(added.value.amount) = 1
                      /\ \E input \in TransferInputs :
                            ExactlyNormalized(added.value.amount[1], input[1], input[2])

C17_AddTransferAppendsOne == [][C17_Step]_vars

\* the fee member of a canonical sign-document, written out
FeeText(f) ==
    QuotedString(SignMsg_keys.fee) \o <<":", "{">>
        \o QuotedString(Fee_keys.amount) \o <<":", "[", "{">>
        \o QuotedString(Amount_keys.amount) \o <<":">>
        \o QuotedString(U64ToString(f.amount[1].amount)) \o <<",">>
        \o QuotedString(Amount_keys.denom) \o <<":">>
        \o QuotedString(DenomStr(f.amount[1].denom)) \o <<"}", "]", ",">>
        \o QuotedString(Fee_keys.gas) \o <<":">>
        \o QuotedString(U64ToString(f.gas)) \o <<"}">>

\* C18: the fee of a built transaction has the configured gas, or 20000 when
\* the builder was created without one, and the configured fee as its only
\* amount; the signed document carries the same fee.
C18_FeeOfBuild ==
    LastBuildOk =>
        \A f \in {amino_ret.tx.tx.fee} :
            /\ f.gas = (IF gas.some THEN gas.v ELSE U64(20000))
            /\ f.amount = <<fee>>
            /\ Contains(build_log[Len(build_log)].signed, FeeText(f))

\* a build on a builder with a configured gas, after one on it already succeeded
C18_Witness ==
    /\ LastBuildOk
    /\ gas.some /\ gas.v # U64(20000)
    /\ amino_ret.tx.tx.fee.gas = gas.v
    /\ Len(build_log) = 2

\* two JSON values hold the same pairs at every level, whatever the order of
\* the members; the elements of arrays are compared in order
RECURSIVE SameJson(_, _)
SameJson(x, y) ==
    /\ x.t = y.t
    /\ IF x.t = "string" THEN x.s = y.s
       ELSE IF x.t = "number" THEN x.n = y.n
       ELSE IF x.t = "array"
       THEN Len(x.a) = Len(y.a) /\ \A i \in DOMAIN x.a : SameJson(x.a[i], y.a[i])
       ELSE /\ Len(x.m) = Len(y.m)
            /\ \A i \in DOMAIN x.m : \E j \in DOMAIN y.m :
                  x.m[i][1] = y.m[j][1] /\ SameJson(x.m[i][2], y.m[j][2])

\* C19: two JSON values that hold the same pairs at every level encode to
\* the same sign bytes whatever the order of their keys, and the elements of
\* the message list are encoded in the order they are held.
C19_KeyOrderIrrelevant ==
    js_out.done =>
        /\ SameJson(js_in.a, js_in.b) => js_out.a = js_out.b
        /\ ~SameJson(js_in.a, js_in.b) => js_out.a # js_out.b
        /\ \A i \in 1..(Len(js_in.doc.msgs) - 1) :
              Contains(js_out.a,
                       SignDoc_encode(TransferJson(js_in.doc.msgs[i])) \o AsBytes(<<",">>)
                           \o SignDoc_encode(TransferJson(js_in.doc.msgs[i + 1])))

\* a document of two different messages encoded from reversed keys
C19_Witness ==
    /\ js_out.done
    /\ js_in.order = "reversed"
    /\ js_in.a # js_in.b
    /\ Len(js_in.doc.msgs) = 2 /\ js_in.doc.msgs[1] # js_in.doc.msgs[2]
    /\ js_out.a = js_out.b

\* the decimal text of the u64 values the documents hold
DecimalText ==
    (U64(0) :> <<"0">>) @@ (U64(4) :> <<"4">>)
        @@ (U64_MAX :> <<"1", "8", "4", "4", "6", "7", "4", "4", "0", "7",
                         "3", "7", "0", "9", "5", "5", "1", "6", "1", "5">>)

\* "key":"decimal text of x" as it stands in the sign bytes
DecimalField(key, x) ==
    AsBytes(QuotedString(key) \o <<":">> \o QuotedString(DecimalText[x]))

\* C20: account_number, sequence, the fee gas and the magnitude of every
\* amount stand in the sign bytes as the decimal string of their u64 value,
\* never as a JSON number, for 0 and 2^64-1 as for any other value.
C20_NumbersAreDecimalStrings ==
    js_out.done =>
        \A doc \in {js_in.doc}, out \in {js_out.a} :
            /\ Contains(out, DecimalField(SignMsg_keys.account_number, doc.account_number))
            /\ Contains(out, DecimalField(SignMsg_keys.sequence, doc.sequence))
            /\ Contains(out, DecimalField(Fee_keys.gas, doc.fee.gas))
            /\ \A i \in DOMAIN doc.fee.amount :
                  Contains(out, DecimalField(Amount_keys.amount, doc.fee.amount[i].amount))
            /\ \A i \in DOMAIN doc.msgs : \A j \in DOMAIN doc.msgs[i].value.amount :
                  Contains(out, DecimalField(Amount_keys.amount,
                                             doc.msgs[i].value.amount[j].amount))
            /\ \A k \in 1..(Len(out) - 1) :
                  out[k] = CharCode(":") => ~(out[k + 1] >= CharCode("0") /\ out[k + 1] <= CharCode("9"))

\* a document whose account_number and gas are 2^64-1, whose sequence is 0
\* and whose messages hold the amounts 0 and 2^64-1
C20_Witness ==
    /\ js_out.done
    /\ js_in.doc.account_number = U64_MAX
    /\ js_in.doc.sequence = U64(0)
    /\ js_in.doc.fee.gas = U64_MAX
    /\ Len(js_in.doc.msgs) = 2
    /\ js_in.doc.msgs[1].value.amount[1].amount = U64(0)
    /\ js_in.doc.msgs[2].value.amount[1].amount = U64_MAX

\* how many get-address commands the device has received
GetAddressCommands == Cardinality({i \in DOMAIN dev_log : dev_log[i].op = "get_address"})

\* the 20 bytes that test_address regroups into the address of DeviceAddress
DeviceAddressBytes ==
    <<225, 64, 125, 164, 34, 185, 24, 168, 86, 50, 135, 191, 64, 67, 61, 9, 169, 101, 197, 10>>

C21_Cached ==
    /\ GetAddressCommands <= 1
    /\ hid_pc = "ready" =>
          /\ GetAddressCommands = 1
          /\ hid_cache.public_key \o hid_cache.address = dev_app.address.data
          /\ Len(hid_cache.public_key) = PK_LEN

C21_Step ==
    (hid_call' \in {"public_key", "address"} /\ hidVars' # hidVars) =>
        /\ dev_log' = dev_log
        /\ hid_cache' = hid_cache
        /\ (hid_call' = "public_key" /\ hid_ret'.kind = "ok")
              => hid_ret'.value = SubSeq(dev_app.address.data, 1, PK_LEN)
        /\ (hid_call' = "address" /\ hid_ret'.kind = "ok")
              => /\ SubSeq(dev_app.address.data, PK_LEN + 1, Len(dev_app.address.data))
                       = AsBytes(DeviceAddress)
                 /\ hid_ret'.value = DeviceAddressBytes

\* C21: the get-address command goes to the device once, while the signer is
\* constructed; public_key() and address() afterwards send nothing and
\* answer from the response to that one command.
C21_AddressFetchedOnce == [](C21_Cached) /\ [][C21_Step]_vars

\* address() answered from the cache after a sign had used the device
C21_Witness ==
    /\ hid_call = "address" /\ hid_ret.kind = "ok"
    /\ hid_ret.value = DeviceAddressBytes
    /\ Len(dev_log) = 4 /\ dev_log[4].op = "sign"
    /\ GetAddressCommands = 1

\* C22: Mnemonic::new succeeds exactly for the word counts 12, 15, 18, 21 and
\* 24 and answers InputError for every other count; Mnemonic::from_str
\* answers an error and no Mnemonic for a phrase of an unsupported length or
\* with a bad checksum.
C22_MnemonicInputs ==
    call_out.done =>
        /\ call_in.fn = "Mnemonic::new" =>
              /\ call_out.r.kind = "ok" <=> call_in.arg \in {12, 15, 18, 21, 24}
              /\ call_out.r.kind = "ok" => Len(call_out.r.value.inner_mnemonic) = call_in.arg
              /\ call_out.r.kind # "ok" =>
                    call_out.r.kind = "err" /\ call_out.r.err = "InputError"
        /\ (/\ call_in.fn = "Mnemonic::from_str"
            /\ \/ Len(call_in.arg) \notin {12, 15, 18, 21, 24}
               \/ call_in.arg # PhraseOf(EntropyOf(call_in.arg)))
              => call_out.r.kind = "err" /\ call_out.r.value = <<>>

\* a phrase of 24 known words whose last word does not carry the checksum
C22_Witness ==
    /\ call_out.done
    /\ call_in.fn = "Mnemonic::from_str"
    /\ Len(call_in.arg) = 24
    /\ \A i \in 1..24 : call_in.arg[i] >= 0
    /\ call_in.arg # PhraseOf(EntropyOf(call_in.arg))
    /\ call_out.r.kind = "err" /\ call_out.r.detail = "InvalidChecksum"

----------------------------------------------------------------------------
(* Protobuf build: failures *)

\* The characters of a base64 string: letters, digits, '+', '/' and the '='
\* padding
Base64Text(text) ==
    \A i \in DOMAIN text :
        CharCode(text[i]) \in (65..90) \cup (97..122) \cup (48..57) \cup {43, 47, 61}

\* One protobuf build step, read from the recorded signer exchange: the
\* signer was never asked when its public_key failed first
C23_Step ==
    g_ret'.op = "build" =>
        /\ ~g_signed'.asked => g_ret'.kind = "err"
        /\ (g_signed'.asked /\ ~g_signed'.reply.ok) => g_ret'.kind = "err"
        /\ (g_signed'.asked /\ g_signed'.reply.ok /\ ~Base64Text(g_signed'.reply.text)) =>
                (g_ret'.kind = "err" /\ g_ret'.err = "SerializeError")
        /\ g_ret'.kind = "err" =>
                /\ g_ret'.text = <<>>
                /\ g_ret'.tx_raw = NoTxRaw
                /\ g_messages' = g_messages
                /\ g_account_number' = g_account_number
                /\ g_sequence' = g_sequence

\* C23: the protobuf build returns an error and no transaction string when
\* the signer's public_key or sign fails, or when the signer's reply is not
\* valid base64 (SerializeError); in each such case the builder's messages,
\* account_number and sequence are unchanged.
C23_FailedBuildKeepsBuilder == [][C23_Step]_vars

\* A build that failed with SerializeError on a builder holding a message
\* and non-default counters
C23_Witness ==
    /\ g_ret.op = "build" /\ g_ret.kind = "err" /\ g_ret.err = "SerializeError"
    /\ g_signed.asked /\ g_signed.reply.ok /\ ~Base64Text(g_signed.reply.text)
    /\ Len(g_messages) > 0
    /\ g_account_number = U64(9)
    /\ g_sequence = U64(4)

----------------------------------------------------------------------------
(* Amino build: the returned Transaction *)

\* C24: a successful amino build returns a Transaction whose mode is the
\* requested mode, whose memo is the configured memo (empty when none was
\* given), whose messages are exactly the added transfers in order, and whose
\* newest signature carries the signer's public key tagged
\* "tendermint/PubKeySecp256k1" with the supplied account_number and sequence.
C24_BuiltTransaction ==
    LastBuildOk =>
        \A call \in {build_log[Len(build_log)]} :
            \A t \in {amino_ret.tx} :
                /\ t.mode = call.sync_mode
                /\ t.tx.memo = memo
                /\ memo \in {unwrap_or(args[2], <<>>) : args \in NewArgs}
                /\ t.tx.messages = transfers
                /\ t.tx.messages = call.msgs
                /\ Len(t.tx.signatures) > 0
                /\ \A newest \in {t.tx.signatures[Len(t.tx.signatures)]} :
                      /\ newest.pub_key.p_type = Lit_PubKeySecp256k1
                      /\ newest.pub_key.value = Base64Encode(PublicKeyBytes)
                      /\ newest.account_number = call.account_number
                      /\ newest.sequence = call.sequence

\* a second successful build, in block mode with account_number 9 and
\* sequence 4, of a builder created without a memo and holding two transfers
C24_Witness ==
    /\ LastBuildOk
    /\ memo = <<>>
    /\ Len(transfers) = 2
    /\ Len(build_log) = 2
    /\ build_log[2].sync_mode = "block"
    /\ amino_ret.tx.mode = "block"
    /\ amino_ret.tx.tx.signatures[2].account_number = U64(9)
    /\ amino_ret.tx.tx.signatures[2].sequence = U64(4)
    /\ build_log[1].sync_mode = "sync"

----------------------------------------------------------------------------
(* Both builders: the message list *)

\* list `before` is the beginning of list `after`
IsPrefix(before, after) ==
    /\ Len(before) <= Len(after)
    /\ SubSeq(after, 1, Len(before)) = before

\* the TxBody bytes hold exactly the given messages, in order, as the
\* elements of field 1, followed by no further element of that field
BodyLists(body_bytes, messages) ==
    \A listed \in {Concat([i \in DOMAIN messages |-> PbMessage(1, EncodeAny(messages[i]))])} :
        /\ IsPrefix(listed, body_bytes)
        /\ Len(body_bytes) > Len(listed) => body_bytes[Len(listed) + 1] # 10

C25_Step ==
    /\ IsPrefix(transfers, transfers')
    /\ Len(transfers') <= Len(transfers) + 1
    /\ amino_ret'.op \in {"build", "new"} => transfers' = transfers
    /\ (amino_ret'.op = "build" /\ amino_ret'.kind = "ok") =>
            amino_ret'.tx.tx.messages = transfers'
    /\ IsPrefix(g_messages, g_messages')
    /\ Len(g_messages') <= Len(g_messages) + 1
    /\ g_ret'.op \in {"build", "set_account_number", "set_sequence"} =>
            g_messages' = g_messages
    /\ (g_ret'.op = "build" /\ g_ret'.kind = "ok") =>
            BodyLists(g_ret'.tx_raw.body_bytes, g_messages')

\* C25: in both builders the message list only grows by appending: no
\* operation, build and the counter setters included, removes, reorders or
\* alters an earlier message, and the built output lists the messages in the
\* order they were added.
C25_MessagesOnlyAppended == [][C25_Step]_vars

\* a successful amino build of two different transfers
C25_WitnessAmino ==
    /\ LastBuildOk
    /\ Len(transfers) = 2
    /\ transfers[1] # transfers[2]
    /\ amino_ret.tx.tx.messages = transfers

\* a successful protobuf build of two different messages after a counter was set
C25_Witness ==
    /\ g_ret.op = "build" /\ g_ret.kind = "ok"
    /\ Len(g_messages) = 2
    /\ g_messages[1] # g_messages[2]
    /\ g_sequence = U64(4)
    /\ BodyLists(g_ret.tx_raw.body_bytes, g_messages)

----------------------------------------------------------------------------
(* Protobuf builder: the counters *)

\* the AuthInfo bytes of one signer in direct mode with the given sequence
AuthInfoBytesFor(cfg, sequence) ==
    EncodeAuthInfo([signer_infos |-> <<[public_key |-> pk_any(PublicKeyBytes),
                                        mode |-> 1, sequence |-> sequence]>>,
                    fee |-> cfg.fee])

\* the document that determines a build's output: a function of the
\* configuration, the message list and the two counters alone
SignDocFor(cfg, messages, account_number, sequence) ==
    [body_bytes |-> EncodeTxBody([messages |-> messages,
                                  memo |-> IF cfg.memo.some THEN cfg.memo.v ELSE <<>>,
                                  timeout_height |-> cfg.timeout_height]),
     auth_info_bytes |-> AuthInfoBytesFor(cfg, sequence),
     chain_id |-> cfg.chain_id,
     account_number |-> account_number]

\* a successful build signed, and returned, the document of the builder's
\* current fields
C26_Built ==
    (g_ret.op = "build" /\ g_ret.kind = "ok") =>
        \A doc \in {SignDocFor(g_cfg, g_messages, g_account_number, g_sequence)} :
            /\ g_signed.sign_doc = doc
            /\ g_signed.bytes = EncodeSignDoc(doc)
            /\ g_ret.tx_raw.body_bytes = doc.body_bytes
            /\ g_ret.tx_raw.auth_info_bytes = doc.auth_info_bytes

\* each call writes its own field only, so calls of different kinds commute;
\* the counters start at 0 and move only in their setters
C26_Step ==
    /\ g_ret.op = "new" => (g_account_number = U64(0) /\ g_sequence = U64(0))
    /\ g_ret'.op = "set_account_number" =>
            (g_sequence' = g_sequence /\ g_messages' = g_messages /\ g_cfg' = g_cfg)
    /\ g_ret'.op = "set_sequence" =>
            (g_account_number' = g_account_number /\ g_messages' = g_messages
                /\ g_cfg' = g_cfg)
    /\ g_ret'.op = "add_message" =>
            (g_account_number' = g_account_number /\ g_sequence' = g_sequence
                /\ g_cfg' = g_cfg)
    /\ g_account_number' # g_account_number => g_ret'.op = "set_account_number"
    /\ g_sequence' # g_sequence => g_ret'.op = "set_sequence"
    /\ g_messages' # g_messages => g_ret'.op = "add_message"

\* C26: the protobuf build uses the most recently set account_number and
\* sequence, each 0 if never set; set_account_number changes only
\* account_number and set_sequence only sequence; calls to set_account_number,
\* set_sequence and add_message commute, so the built output depends only on
\* the final counter values and the order of the added messages.
C26_CountersAndOrder == [](C26_Built) /\ [][C26_Step]_vars

\* a successful build of two messages after account_number was set to 9 and
\* with the sequence still 0
C26_Witness ==
    /\ g_ret.op = "build" /\ g_ret.kind = "ok"
    /\ Len(g_messages) = 2
    /\ g_account_number = U64(9)
    /\ g_sequence = U64(0)
    /\ g_signed.sign_doc.account_number = U64(9)

----------------------------------------------------------------------------
(* Protobuf builder: build and the read-only methods *)

C27_Step ==
    /\ g_ret'.op \in {"build"} \cup GrpcReadOps =>
            /\ g_cfg' = g_cfg
            /\ g_messages' = g_messages
            /\ g_account_number' = g_account_number
            /\ g_sequence' = g_sequence
    /\ (/\ g_ret.op = "build" /\ g_ret.kind = "ok"
        /\ g_ret'.op = "build" /\ g_ret'.kind = "ok"
        /\ g_signed'.bytes = g_signed.bytes => g_signed'.reply = g_signed.reply)
            => g_ret'.text = g_ret.text
    /\ g_ret'.op = "create_msg" => Len(g_messages') = Len(g_messages)

\* C27: the protobuf build changes no builder field, and with a deterministic
\* signer two consecutive builds with no call in between return the identical
\* base64 string; pk_any, raw_tx_body, auth_info, sign_doc and create_msg
\* likewise leave the builder unchanged, so create_msg alone never adds a
\* message.
C27_BuildAndReadsChangeNothing == [][C27_Step]_vars

\* create_msg returned a message on a builder that holds none
C27_Witness ==
    /\ g_ret.op = "create_msg" /\ g_ret.kind = "ok"
    /\ g_ret.bytes \in {EncodeAny(m) : m \in GrpcMessages}
    /\ g_messages = <<>>

----------------------------------------------------------------------------
(* LedgerServiceHID::new: the commands it sends *)

ConstructorCommands == <<"get_app_info", "get_version", "get_address">>

\* the commands sent so far begin with the constructor's, in order, and only
\* sign commands of the constructed signer follow them
C28_Order ==
    \A i \in DOMAIN dev_log :
        IF i <= 3 THEN dev_log[i].op = ConstructorCommands[i] ELSE dev_log[i].op = "sign"

C28_Outcome ==
    /\ hid_pc = "ready" =>
            /\ Len(dev_log) >= 3
            /\ dev_log[3].p1 = 0
    /\ (\E i \in DOMAIN dev_log : dev_log[i].op = "get_address") => hid_in.chain_path_ok
    /\ hid_pc = "failed" => Len(dev_log) <= 3
    /\ (hid_pc = "failed" /\ hid_ret.err = "InputError") =>
            /\ ~hid_in.chain_path_ok
            /\ Len(dev_log) = 2
    /\ (hid_pc = "failed" /\ ~hid_in.chain_path_ok /\ Len(dev_log) = 2
          /\ hid_ret.detail \notin {"get version failed", "only support v2 major version"})
            => hid_ret.err = "InputError"

\* once new has failed nothing more is sent
C28_Step == hid_pc = "failed" => (dev_log' = dev_log /\ hid_pc' = "failed")

C28_WitnessInvalidPath ==
    /\ hid_pc = "failed" /\ hid_ret.err = "InputError"
    /\ Len(dev_log) = 2

----------------------------------------------------------------------------
(* CosmosValidatorApp::version and to_bip32array *)

VersionAnswered == call_in.fn = "CosmosValidatorApp::version" /\ call_out.done

\* C29: version returns InvalidVersion for every response whose status is not
\* 0x9000 and, for every response with the success status, one with fewer
\* than 4 data bytes included, returns either a Version or an error: it never
\* crashes on a short response.
C29_VersionNeverCrashes ==
    VersionAnswered =>
        /\ call_out.r.kind \in {"ok", "err"}
        /\ (call_in.exchange_ok /\ call_in.response.retcode # 36864)
              => (call_out.r.kind = "err" /\ call_out.r.err = "InvalidVersion")

\* what version does on the responses it can read
C29_LongEnoughResponses ==
    (VersionAnswered /\ call_in.exchange_ok /\ call_in.response.retcode = 36864
        /\ Len(call_in.response.data) >= 4)
        => /\ call_out.r.kind = "ok"
           /\ call_out.r.value.major = call_in.response.data[2]

\* the component that bytes 4i-2 .. 4i+1 of the answer spell, least
\* significant byte first
ComponentAt(bytes, i) ==
    [index |-> bytes[4 * i - 2] + 256 * bytes[4 * i - 1] + 65536 * bytes[4 * i]
                  + 16777216 * (bytes[4 * i + 1] % 128),
     hardened |-> bytes[4 * i + 1] >= 128]

\* C30: to_bip32array returns InvalidDerivationPath for a path of more than 10
\* components and otherwise a byte string of length 1 + 4n: the component
\* count followed by each component as a 4-byte little-endian integer in path
\* order, the hardened bit (0x80000000) preserved.
C30_Bip32Array ==
    (call_in.fn = "to_bip32array" /\ call_out.done) =>
        \A path \in {call_in.arg} : \A r \in {call_out.r} :
            IF Len(path) > 10
            THEN r.kind = "err" /\ r.err = "InvalidDerivationPath"
            ELSE /\ r.kind = "ok"
                 /\ Len(r.value) = 1 + 4 * Len(path)
                 /\ r.value[1] = Len(path)
                 /\ \A k \in DOMAIN r.value : r.value[k] \in 0..255
                 /\ \A i \in DOMAIN path : ComponentAt(r.value, i) = path[i]
                 /\ path = <<U32(1, FALSE), U32(2, FALSE), U32(12345, FALSE)>>
                       => r.value = <<3, 1, 0, 0, 0, 2, 0, 0, 0, 57, 48, 0, 0>>

\* a path of 10 components, hardened ones among them, was serialised
C30_Witness ==
    /\ call_in.fn = "to_bip32array" /\ call_out.done
    /\ Len(call_in.arg) = 10
    /\ \E i \in 1..10 : call_in.arg[i] = U32(2147483647, TRUE)
    /\ call_out.r.kind = "ok"
    /\ Len(call_out.r.value) = 41

====
